---- MODULE Spec2Model ----
(***************************************************************************)
(* A model of the external scanner of tree-sitter-htmldjango               *)
(* (src/src/scanner.c): the element stack, the verbatim suffix buffer,     *)
(* the scan dispatcher with every sub-scanner, and serialize/deserialize.  *)
(*                                                                         *)
(* Characters are one-character strings, an input is a sequence of         *)
(* characters, and the lexer cursor is the number of characters consumed.  *)
(* Inputs are ASCII; the end of input reads as the lookahead EOFC.         *)
(***************************************************************************)
EXTENDS Integers, Sequences, FiniteSets, TLC

VARIABLES
    tags,               \* Scanner.tags: the open-element stack, bottom first
    verbatim_suffix,    \* Scanner.verbatim_suffix: the bytes written to the buffer
    verbatim_length,    \* Scanner.verbatim_length
    verbatim_capacity,  \* Scanner.verbatim_capacity
    buffer,             \* the bytes the last serialize call wrote
    doc,                \* the document a host parse runs over
    pos,                \* the host parser's position in doc
    phase,              \* the host parser's position in the grammar
    trace,              \* the tokens the scanner emitted during the host parse
    last                \* the last call made on the scanner, with its result

vars == << tags, verbatim_suffix, verbatim_length, verbatim_capacity,
           buffer, doc, pos, phase, trace, last >>

scannerVars == << tags, verbatim_suffix, verbatim_length, verbatim_capacity >>
(***************************************************************************)
(* Characters and <wctype.h>                                               *)
(***************************************************************************)
EOFC == ""

LowerCase == <<"a", "b", "c", "d", "e", "f", "g", "h", "i", "j", "k", "l", "m",
               "n", "o", "p", "q", "r", "s", "t", "u", "v", "w", "x", "y", "z">>
UpperCase == <<"A", "B", "C", "D", "E", "F", "G", "H", "I", "J", "K", "L", "M",
               "N", "O", "P", "Q", "R", "S", "T", "U", "V", "W", "X", "Y", "Z">>
Digits == <<"0", "1", "2", "3", "4", "5", "6", "7", "8", "9">>

Range(s) == { s[k] : k \in DOMAIN s }

LowerSet == Range(LowerCase)
UpperSet == Range(UpperCase)
DigitSet == Range(Digits)

iswalpha(c) == c \in LowerSet \cup UpperSet
iswalnum(c) == c \in LowerSet \cup UpperSet \cup DigitSet
iswspace(c) == c \in {" ", "\t", "\n", "\r", "\f"}

towupper(c) ==
    IF c \in LowerSet
    THEN UpperCase[CHOOSE k \in DOMAIN LowerCase : LowerCase[k] = c]
    ELSE c

\* A test that takes no character for horizontal space
is_no_horizontal_space(c) == FALSE

is_horizontal_space(c) == c \in {" ", "\t", "\r"}

\* The whitespace the Django comment scanner and the validator skip by hand.
is_django_space(c) == c \in {" ", "\t", "\r", "\n"}

(***************************************************************************)
(* The lexer cursor (TSLexer): lookahead, advance, mark_end, eof           *)
(***************************************************************************)
LA(inp, i) == IF i < Len(inp) THEN inp[i + 1] ELSE EOFC

\* advance() at the end of input leaves the cursor where it is
Adv(inp, i) == IF i < Len(inp) THEN i + 1 ELSE i

AtEof(inp, i) == i >= Len(inp)

\* The end mark is <<>> until mark_end is called, then <<position>>; a token
\* whose scan never called mark_end ends at the cursor.
Unmarked == << >>
MarkAt(i) == << i >>
\* A token that always ends at the cursor
TokenEndAtCursor(mk, cur) == cur

TokenEnd(mk, cur) == IF mk = Unmarked THEN cur ELSE mk[1]

RECURSIVE SkipWhile(_, _, _)
SkipWhile(inp, i, set) ==
    IF LA(inp, i) \in set THEN SkipWhile(inp, i + 1, set) ELSE i

skip_horizontal_space(inp, i) == SkipWhile(inp, i, {" ", "\t", "\r"})

skip_django_space(inp, i) == SkipWhile(inp, i, {" ", "\t", "\r", "\n"})

\* `while (*p && lexer->lookahead == *p) { advance(lexer); p++; }`:
\* the number of characters of kw matched from p on, at cursor i
RECURSIVE MatchLen(_, _, _, _)
MatchLen(inp, i, kw, p) ==
    IF p < Len(kw) /\ LA(inp, i) = kw[p + 1]
    THEN MatchLen(inp, i + 1, kw, p + 1)
    ELSE p

(***************************************************************************)
(* Scanner state and scan results                                          *)
(***************************************************************************)
ScannerOf(tg, buf, len, cap) ==
    [tags |-> tg, vbuf |-> buf, vlen |-> len, vcap |-> cap]

\* The suffix the scanner holds: the first verbatim_length bytes of the buffer
SuffixOf(S) == SubSeq(S.vbuf, 1, S.vlen)

\* What a scan call leaves behind: whether a token was accepted, its id
\* (lexer->result_symbol), the cursor, the token end, the scanner state and
\* the sub-scanner the dispatcher ran.
Ret(ok, sym, cur, mk, S) ==
    [ok |-> ok, sym |-> sym, cur |-> cur, end |-> TokenEnd(mk, cur),
     tags |-> S.tags, vbuf |-> S.vbuf, vlen |-> S.vlen, vcap |-> S.vcap,
     sub |-> "none"]

NoSymbol == "NONE"

(***************************************************************************)
(* Verbatim suffix helpers                                                 *)
(***************************************************************************)
RECURSIVE GrowCap(_, _)
GrowCap(cap, size) == IF cap < size THEN GrowCap(cap * 2, size) ELSE cap

\* ensure_verbatim_capacity: mem is the number of realloc calls that will
\* still succeed. The result is <<ok, capacity, mem>>.
ensure_verbatim_capacity(cap, size, mem) ==
    IF cap >= size THEN <<TRUE, cap, mem>>
    ELSE IF mem = 0 THEN <<FALSE, cap, mem>>
    ELSE <<TRUE, GrowCap(IF cap # 0 THEN cap ELSE 64, size), mem - 1>>

(***************************************************************************)
(* scan_verbatim_start                                                     *)
(***************************************************************************)
\* The loop leaves at end of input, at a newline and at `%}`.
is_verbatim_start_stop(inp, k) ==
    \/ LA(inp, k) = EOFC
    \/ LA(inp, k) = "\n"
    \/ (LA(inp, k) = "%" /\ LA(inp, k + 1) = "}")

\* The first cursor from i on at which the loop leaves
verbatim_start_stop(inp, i) ==
    CHOOSE e \in i..Len(inp) :
        /\ is_verbatim_start_stop(inp, e)
        /\ \A k \in i..(e - 1) : ~is_verbatim_start_stop(inp, k)

\* The capacity the buffer reaches when mem more realloc calls succeed; the
\* loop asks for one byte more at a time, so each call doubles it (64 first).
RECURSIVE verbatim_capacity_limit(_, _)
verbatim_capacity_limit(cap, mem) ==
    IF mem = 0 THEN cap
    ELSE verbatim_capacity_limit(IF cap # 0 THEN cap * 2 ELSE 64, mem - 1)

\* A verbatim start that accepts the bytes it could store when realloc fails
scan_verbatim_start_partial(S, inp, i, mem) ==
    LET e      == verbatim_start_stop(inp, i)
        limit  == verbatim_capacity_limit(S.vcap, mem)
        length == IF e - i <= limit THEN e - i ELSE limit
        buf    == [j \in 1..(IF Len(S.vbuf) > length THEN Len(S.vbuf) ELSE length)
                     |-> IF j <= length THEN inp[i + j] ELSE S.vbuf[j]]
    IN
    IF LA(inp, e) = "%"
    THEN Ret(TRUE, "VERBATIM_START", e + 2, MarkAt(e + 2),
             [S EXCEPT !.vbuf = buf, !.vlen = length,
                       !.vcap = IF length > S.vcap THEN length ELSE S.vcap])
    ELSE Ret(FALSE, NoSymbol, e, MarkAt(i), S)

\* The loop stores the bytes in front of the cursor at which it leaves, one
\* at a time, and stops early at the byte for which realloc fails.
scan_verbatim_start(S, inp, i, mem) ==
    LET e      == verbatim_start_stop(inp, i)
        limit  == verbatim_capacity_limit(S.vcap, mem)
        length == IF e - i <= limit THEN e - i ELSE limit
        cap    == IF length = 0 THEN S.vcap
                  ELSE GrowCap(IF S.vcap # 0 THEN S.vcap ELSE 64, length)
        buf    == [j \in 1..(IF Len(S.vbuf) > length THEN Len(S.vbuf) ELSE length)
                     |-> IF j <= length THEN inp[i + j] ELSE S.vbuf[j]]
        kept   == { j \in 1..length : ~is_horizontal_space(inp[i + j]) }
        last_non_space ==
            IF kept = {} THEN 0 ELSE CHOOSE j \in kept : \A m \in kept : m <= j
        T      == [S EXCEPT !.vbuf = buf, !.vcap = cap]
    IN
    IF e - i > limit
    THEN Ret(FALSE, NoSymbol,
             IF LA(inp, i + length) = "%" THEN i + length + 1 ELSE i + length,
             MarkAt(i), T)
    ELSE IF LA(inp, e) = "%"
    THEN Ret(TRUE, "VERBATIM_START", e + 2, MarkAt(e + 2),
             [T EXCEPT !.vlen = last_non_space])
    ELSE Ret(FALSE, NoSymbol, e, MarkAt(i), T)

(***************************************************************************)
(* scan_verbatim_content                                                   *)
(***************************************************************************)
KW_ENDVERBATIM == <<"e", "n", "d", "v", "e", "r", "b", "a", "t", "i", "m">>

\* One attempt to read `{% endverbatim<suffix> %}` at cursor i, which is at
\* a "{": <<matched, cursor after the attempt>>. The cursor stays where the
\* attempt stopped; the lexer cannot move back.
verbatim_end_attempt(S, inp, i) ==
    LET i1 == i + 1 IN
    IF LA(inp, i1) # "%" THEN <<FALSE, i1>>
    ELSE
    LET i2 == skip_horizontal_space(inp, i1 + 1)
        p  == MatchLen(inp, i2, KW_ENDVERBATIM, 0)
        i3 == i2 + p
    IN
    IF p # Len(KW_ENDVERBATIM) THEN <<FALSE, i3>>
    ELSE
    LET n  == MatchLen(inp, i3, SuffixOf(S), 0)
        i4 == i3 + n
    IN
    IF n # S.vlen THEN <<FALSE, i4>>
    ELSE
    LET i5 == skip_horizontal_space(inp, i4) IN
    IF LA(inp, i5) # "%" THEN <<FALSE, i5>>
    ELSE IF LA(inp, i5 + 1) # "}" THEN <<FALSE, i5 + 1>>
    ELSE <<TRUE, i5 + 2>>

RECURSIVE verbatim_content_loop(_, _, _, _)
verbatim_content_loop(S, inp, i, mk) ==
    IF LA(inp, i) = EOFC
    THEN Ret(FALSE, NoSymbol, i, mk, S)
    ELSE IF LA(inp, i) = "{"
    THEN LET a == verbatim_end_attempt(S, inp, i) IN
         IF a[1]
         THEN Ret(TRUE, "VERBATIM_BLOCK_CONTENT", a[2], MarkAt(a[2]),
                  [S EXCEPT !.vlen = 0])
         ELSE verbatim_content_loop(S, inp, Adv(inp, a[2]), MarkAt(i))
    ELSE verbatim_content_loop(S, inp, Adv(inp, i), MarkAt(i))

scan_verbatim_content(S, inp, i) == verbatim_content_loop(S, inp, i, Unmarked)

(***************************************************************************)
(* The generic-tag validator                                               *)
(***************************************************************************)
BUILTIN_DJANGO_TAGS ==
    { <<"i", "f">>,
      <<"e", "l", "i", "f">>,
      <<"e", "l", "s", "e">>,
      <<"e", "n", "d", "i", "f">>,
      <<"f", "o", "r">>,
      <<"e", "m", "p", "t", "y">>,
      <<"e", "n", "d", "f", "o", "r">>,
      <<"w", "i", "t", "h">>,
      <<"e", "n", "d", "w", "i", "t", "h">>,
      <<"b", "l", "o", "c", "k">>,
      <<"e", "n", "d", "b", "l", "o", "c", "k">>,
      <<"e", "x", "t", "e", "n", "d", "s">>,
      <<"i", "n", "c", "l", "u", "d", "e">>,
      <<"l", "o", "a", "d">>,
      <<"u", "r", "l">>,
      <<"c", "s", "r", "f", "_", "t", "o", "k", "e", "n">>,
      <<"a", "u", "t", "o", "e", "s", "c", "a", "p", "e">>,
      <<"e", "n", "d", "a", "u", "t", "o", "e", "s", "c", "a", "p", "e">>,
      <<"f", "i", "l", "t", "e", "r">>,
      <<"e", "n", "d", "f", "i", "l", "t", "e", "r">>,
      <<"s", "p", "a", "c", "e", "l", "e", "s", "s">>,
      <<"e", "n", "d", "s", "p", "a", "c", "e", "l", "e", "s", "s">>,
      <<"v", "e", "r", "b", "a", "t", "i", "m">>,
      <<"e", "n", "d", "v", "e", "r", "b", "a", "t", "i", "m">>,
      <<"c", "y", "c", "l", "e">>,
      <<"f", "i", "r", "s", "t", "o", "f">>,
      <<"n", "o", "w">>,
      <<"r", "e", "g", "r", "o", "u", "p">>,
      <<"i", "f", "c", "h", "a", "n", "g", "e", "d">>,
      <<"e", "n", "d", "i", "f", "c", "h", "a", "n", "g", "e", "d">>,
      <<"w", "i", "d", "t", "h", "r", "a", "t", "i", "o">>,
      <<"t", "e", "m", "p", "l", "a", "t", "e", "t", "a", "g">>,
      <<"d", "e", "b", "u", "g">>,
      <<"l", "o", "r", "e", "m">>,
      <<"r", "e", "s", "e", "t", "c", "y", "c", "l", "e">>,
      <<"q", "u", "e", "r", "y", "s", "t", "r", "i", "n", "g">>,
      <<"p", "a", "r", "t", "i", "a", "l", "d", "e", "f">>,
      <<"e", "n", "d", "p", "a", "r", "t", "i", "a", "l", "d", "e", "f">>,
      <<"p", "a", "r", "t", "i", "a", "l">>,
      <<"c", "o", "m", "m", "e", "n", "t">>,
      <<"e", "n", "d", "c", "o", "m", "m", "e", "n", "t">> }

is_builtin_django_tag(tag_name) == tag_name \in BUILTIN_DJANGO_TAGS

\* The tag_name buffer holds 256 bytes: at most 255 of name and the NUL.
TAG_NAME_MAX == 255

\* `while ((iswalnum(c) || c == '_') && tag_len < 255)`: <<name, cursor>>
RECURSIVE read_generic_name(_, _, _)
read_generic_name(inp, i, name) ==
    LET c == LA(inp, i) IN
    IF (iswalnum(c) \/ c = "_") /\ Len(name) < TAG_NAME_MAX
    THEN read_generic_name(inp, i + 1, Append(name, c))
    ELSE <<name, i>>

\* An attempt that accepts `{% end<name>` whatever follows the name
generic_end_attempt_prefix(inp, i, end_tag) ==
    LET i1 == i + 1 IN
    IF LA(inp, i1) # "%" THEN <<FALSE, i1>>
    ELSE
    LET i2 == skip_django_space(inp, i1 + 1)
        p  == MatchLen(inp, i2, end_tag, 0)
    IN  <<p = Len(end_tag), i2 + p>>

\* One attempt to read `{% end<name>` at cursor i, which is at a "{":
\* <<matched, cursor after the attempt>>
generic_end_attempt(inp, i, end_tag) ==
    LET i1 == i + 1 IN
    IF LA(inp, i1) # "%" THEN <<FALSE, i1>>
    ELSE
    LET i2 == skip_django_space(inp, i1 + 1)
        p  == MatchLen(inp, i2, end_tag, 0)
        i3 == i2 + p
    IN
    IF p = Len(end_tag) /\ (is_django_space(LA(inp, i3)) \/ LA(inp, i3) = "%")
    THEN <<TRUE, i3>>
    ELSE <<FALSE, i3>>

\* The lookahead for the block's end tag: <<found, cursor>>
RECURSIVE find_generic_end(_, _, _)
find_generic_end(inp, i, end_tag) ==
    IF LA(inp, i) = EOFC THEN <<FALSE, i>>
    ELSE IF LA(inp, i) = "{"
    THEN LET a == generic_end_attempt(inp, i, end_tag) IN
         IF a[1] THEN a ELSE find_generic_end(inp, a[2], end_tag)
    ELSE find_generic_end(inp, i + 1, end_tag)

KW_END == <<"e", "n", "d">>

scan_validate_generic_tag(S, inp, i, valid) ==
    LET c0 == LA(inp, i) IN
    IF ~iswalpha(c0) /\ c0 # "_"
    THEN Ret(FALSE, NoSymbol, i, MarkAt(i), S)
    ELSE
    LET rd       == read_generic_name(inp, i, << >>)
        tag_name == rd[1]
        j        == rd[2]
    IN
    IF Len(tag_name) = 0 THEN Ret(FALSE, NoSymbol, j, MarkAt(i), S)
    ELSE IF is_builtin_django_tag(tag_name) THEN Ret(FALSE, NoSymbol, j, MarkAt(i), S)
    ELSE IF Len(tag_name) >= 3 /\ SubSeq(tag_name, 1, 3) = KW_END
    THEN Ret(FALSE, NoSymbol, j, MarkAt(i), S)
    ELSE
    LET f == IF "VALIDATE_GENERIC_BLOCK" \in valid
             THEN find_generic_end(inp, j, KW_END \o tag_name)
             ELSE <<FALSE, j>>
    IN
    IF f[1] THEN Ret(TRUE, "VALIDATE_GENERIC_BLOCK", f[2], MarkAt(i), S)
    ELSE IF "VALIDATE_GENERIC_SIMPLE" \in valid
    THEN Ret(TRUE, "VALIDATE_GENERIC_SIMPLE", f[2], MarkAt(i), S)
    ELSE Ret(FALSE, NoSymbol, f[2], MarkAt(i), S)

(***************************************************************************)
(* scan_django_comment_content                                             *)
(***************************************************************************)
KW_ENDCOMMENT == <<"e", "n", "d", "c", "o", "m", "m", "e", "n", "t">>

\* An attempt that accepts `{% endcomment` without looking for the `%}`
comment_end_attempt_open(inp, i) ==
    LET i1 == i + 1 IN
    IF LA(inp, i1) # "%" THEN <<FALSE, i1>>
    ELSE
    LET i2 == skip_django_space(inp, i1 + 1)
        p  == MatchLen(inp, i2, KW_ENDCOMMENT, 0)
    IN  <<p = Len(KW_ENDCOMMENT), i2 + p>>

\* One attempt to read `{% endcomment %}` at cursor i, which is at a "{":
\* <<matched, cursor after the attempt>>
comment_end_attempt(inp, i) ==
    LET i1 == i + 1 IN
    IF LA(inp, i1) # "%" THEN <<FALSE, i1>>
    ELSE
    LET i2 == skip_django_space(inp, i1 + 1)
        p  == MatchLen(inp, i2, KW_ENDCOMMENT, 0)
        i3 == i2 + p
    IN
    IF p # Len(KW_ENDCOMMENT) THEN <<FALSE, i3>>
    ELSE
    LET i4 == skip_django_space(inp, i3) IN
    IF LA(inp, i4) # "%" THEN <<FALSE, i4>>
    ELSE IF LA(inp, i4 + 1) # "}" THEN <<FALSE, i4 + 1>>
    ELSE <<TRUE, i4 + 1>>

RECURSIVE django_comment_loop(_, _, _, _)
django_comment_loop(S, inp, i, mk) ==
    IF LA(inp, i) = EOFC THEN Ret(FALSE, NoSymbol, i, mk, S)
    ELSE IF LA(inp, i) = "{"
    THEN LET a == comment_end_attempt(inp, i) IN
         IF a[1]
         THEN Ret(TRUE, "DJANGO_COMMENT_CONTENT", a[2], MarkAt(i), S)
         ELSE django_comment_loop(S, inp, a[2], MarkAt(i))
    ELSE django_comment_loop(S, inp, i + 1, mk)

scan_django_comment_content(S, inp, i) ==
    django_comment_loop(S, inp, i, MarkAt(i))

(***************************************************************************)
(* The tag vocabulary (tag.h). A tag is [type, name]: name is the          *)
(* custom_tag_name, empty unless the type is CUSTOM.                       *)
(***************************************************************************)
VoidTypes ==
    { "AREA", "BASE", "BR", "COL", "EMBED", "HR", "IMG", "INPUT",
      "LINK", "META", "PARAM", "SOURCE", "TRACK", "WBR" }

NamedTypes ==
    { "HTML", "HEAD", "BODY", "SCRIPT", "STYLE", "TITLE", "TEXTAREA",
      "PLAINTEXT", "SVG", "MATH" }

OtherTypes ==
    { "A", "DIV", "LI", "P", "SPAN", "TD", "TR", "UL" }

KnownTypes == VoidTypes \cup NamedTypes \cup OtherTypes

\* The static table of recognized names: each known type under its
\* upper-case name.
TAG_TYPES_BY_TAG_NAME ==
    { <<<<"A", "R", "E", "A">>, "AREA">>,
      <<<<"B", "A", "S", "E">>, "BASE">>,
      <<<<"B", "R">>, "BR">>,
      <<<<"C", "O", "L">>, "COL">>,
      <<<<"E", "M", "B", "E", "D">>, "EMBED">>,
      <<<<"H", "R">>, "HR">>,
      <<<<"I", "M", "G">>, "IMG">>,
      <<<<"I", "N", "P", "U", "T">>, "INPUT">>,
      <<<<"L", "I", "N", "K">>, "LINK">>,
      <<<<"M", "E", "T", "A">>, "META">>,
      <<<<"P", "A", "R", "A", "M">>, "PARAM">>,
      <<<<"S", "O", "U", "R", "C", "E">>, "SOURCE">>,
      <<<<"T", "R", "A", "C", "K">>, "TRACK">>,
      <<<<"W", "B", "R">>, "WBR">>,
      <<<<"H", "T", "M", "L">>, "HTML">>,
      <<<<"H", "E", "A", "D">>, "HEAD">>,
      <<<<"B", "O", "D", "Y">>, "BODY">>,
      <<<<"S", "C", "R", "I", "P", "T">>, "SCRIPT">>,
      <<<<"S", "T", "Y", "L", "E">>, "STYLE">>,
      <<<<"T", "I", "T", "L", "E">>, "TITLE">>,
      <<<<"T", "E", "X", "T", "A", "R", "E", "A">>, "TEXTAREA">>,
      <<<<"P", "L", "A", "I", "N", "T", "E", "X", "T">>, "PLAINTEXT">>,
      <<<<"S", "V", "G">>, "SVG">>,
      <<<<"M", "A", "T", "H">>, "MATH">>,
      <<<<"A">>, "A">>,
      <<<<"D", "I", "V">>, "DIV">>,
      <<<<"L", "I">>, "LI">>,
      <<<<"P">>, "P">>,
      <<<<"S", "P", "A", "N">>, "SPAN">>,
      <<<<"T", "D">>, "TD">>,
      <<<<"T", "R">>, "TR">>,
      <<<<"U", "L">>, "UL">> }

Tag(type, name) == [type |-> type, name |-> name]

tag_new == Tag("END_OF_VOID_TAGS", << >>)

tag_for_name(name) ==
    IF \E e \in TAG_TYPES_BY_TAG_NAME : e[1] = name
    THEN Tag((CHOOSE e \in TAG_TYPES_BY_TAG_NAME : e[1] = name)[2], << >>)
    ELSE Tag("CUSTOM", name)

tag_eq(a, b) ==
    /\ a.type = b.type
    /\ (a.type = "CUSTOM" => a.name = b.name)

\* A table without void tags
tag_is_void_never(t) == FALSE

tag_is_void(t) == t.type \in VoidTypes

\* The children that force a parent closed when they open; every parent
\* without a rule contains everything.
TAG_TYPES_NOT_ALLOWED_IN_PARAGRAPHS == {"DIV", "P", "UL"}

tag_can_contain(parent, child) ==
    CASE parent.type = "LI" -> child.type # "LI"
      [] parent.type = "P"  -> child.type \notin TAG_TYPES_NOT_ALLOWED_IN_PARAGRAPHS
      [] parent.type = "TR" -> child.type # "TR"
      [] OTHER -> TRUE

(***************************************************************************)
(* Element stack                                                           *)
(***************************************************************************)
\* Foreign content judged by the top of the stack alone
in_foreign_content_top(tg) ==
    Len(tg) > 0 /\ tg[Len(tg)].type \in {"SVG", "MATH"}

\* A stack that always counts as foreign content
in_foreign_content_always(tg) == TRUE

in_foreign_content(tg) == \E k \in DOMAIN tg : tg[k].type \in {"SVG", "MATH"}

array_back(tg) == tg[Len(tg)]

\* A push that stores the tag twice
array_push_twice(tg, t) == Append(Append(tg, t), t)

array_push(tg, t) == Append(tg, t)

\* A pop that leaves the stack as it is
pop_tag_keeps(S) == S

\* What array_pop leaves of an empty array: the size runs below zero and the
\* tag is read in front of the contents, so the stack is broken from then on.
BrokenStack == << Tag("BROKEN", << >>) >>

\* pop_tag
pop_tag(S) ==
    IF Len(S.tags) = 0
    THEN [S EXCEPT !.tags = BrokenStack]
    ELSE [S EXCEPT !.tags = SubSeq(S.tags, 1, Len(S.tags) - 1)]

\* A search that looks no deeper than the top
found_on_top(tg, t) == Len(tg) > 0 /\ tag_eq(tg[Len(tg)], t)

\* `for (i = size; i > 0; i--) if (tag_eq(&contents[i - 1], &tag))`
found_in_stack(tg, t) == \E k \in DOMAIN tg : tag_eq(tg[k], t)

(***************************************************************************)
(* scan_tag_name                                                           *)
(***************************************************************************)
\* The loop's condition
is_tag_name_char(c) == iswalnum(c) \/ c = "-" \/ c = ":"

\* The cursor at which the loop stops: the first character from i on that
\* fails its condition
tag_name_end(inp, i) ==
    CHOOSE e \in i..Len(inp) :
        /\ ~is_tag_name_char(LA(inp, e))
        /\ \A k \in i..(e - 1) : is_tag_name_char(LA(inp, k))

\* <<tag_name, cursor>>
scan_tag_name(inp, i, uppercase) ==
    LET e == tag_name_end(inp, i) IN
    << [j \in 1..(e - i) |-> IF uppercase THEN towupper(inp[i + j]) ELSE inp[i + j]],
       e >>

(***************************************************************************)
(* scan_comment: the HTML comment state machine, entered after "<!"        *)
(***************************************************************************)
\* A comment loop that reads to the end of input whatever it meets
comment_loop_to_end(inp, i, state) == Len(inp)

\* The cursor at which the comment is accepted
RECURSIVE comment_loop(_, _, _)
comment_loop(inp, i, state) ==
    LET c == LA(inp, i) IN
    IF c = EOFC THEN i
    ELSE CASE state = "HTML_COMMENT_START" ->
                IF c = "-" THEN comment_loop(inp, i + 1, "HTML_COMMENT_START_DASH")
                ELSE IF c = ">" THEN i + 1
                ELSE comment_loop(inp, i + 1, "HTML_COMMENT")
           [] state = "HTML_COMMENT_START_DASH" ->
                IF c = "-" THEN comment_loop(inp, i + 1, "HTML_COMMENT_END")
                ELSE IF c = ">" THEN i + 1
                ELSE comment_loop(inp, i + 1, "HTML_COMMENT")
           [] state = "HTML_COMMENT" ->
                IF c = "<" THEN comment_loop(inp, i + 1, "HTML_COMMENT_LT")
                ELSE IF c = "-" THEN comment_loop(inp, i + 1, "HTML_COMMENT_END_DASH")
                ELSE comment_loop(inp, i + 1, "HTML_COMMENT")
           [] state = "HTML_COMMENT_LT" ->
                IF c = "!" THEN comment_loop(inp, i + 1, "HTML_COMMENT_LT_BANG")
                ELSE IF c = "<" THEN comment_loop(inp, i + 1, "HTML_COMMENT")
                ELSE comment_loop(inp, i, "HTML_COMMENT")
           [] state = "HTML_COMMENT_LT_BANG" ->
                IF c = "-" THEN comment_loop(inp, i + 1, "HTML_COMMENT_LT_BANG_DASH")
                ELSE comment_loop(inp, i, "HTML_COMMENT")
           [] state = "HTML_COMMENT_LT_BANG_DASH" ->
                IF c = "-" THEN comment_loop(inp, i + 1, "HTML_COMMENT_LT_BANG_DASH_DASH")
                ELSE comment_loop(inp, i, "HTML_COMMENT_END_DASH")
           [] state = "HTML_COMMENT_LT_BANG_DASH_DASH" ->
                comment_loop(inp, i, "HTML_COMMENT_END")
           [] state = "HTML_COMMENT_END_DASH" ->
                IF c = "-" THEN comment_loop(inp, i + 1, "HTML_COMMENT_END")
                ELSE comment_loop(inp, i + 1, "HTML_COMMENT")
           [] state = "HTML_COMMENT_END" ->
                IF c = ">" THEN i + 1
                ELSE IF c = "!" THEN comment_loop(inp, i + 1, "HTML_COMMENT_END_BANG")
                ELSE IF c = "-" THEN comment_loop(inp, i + 1, "HTML_COMMENT_END")
                ELSE comment_loop(inp, i + 1, "HTML_COMMENT")
           [] state = "HTML_COMMENT_END_BANG" ->
                IF c = "-" THEN comment_loop(inp, i + 1, "HTML_COMMENT_END_DASH")
                ELSE IF c = ">" THEN i + 1
                ELSE comment_loop(inp, i + 1, "HTML_COMMENT")

scan_comment(S, inp, i, mk) ==
    IF LA(inp, i) # "-" THEN Ret(FALSE, NoSymbol, i, mk, S)
    ELSE IF LA(inp, i + 1) # "-" THEN Ret(FALSE, NoSymbol, i + 1, mk, S)
    ELSE LET e == comment_loop(inp, i + 2, "HTML_COMMENT_START") IN
         Ret(TRUE, "COMMENT", e, MarkAt(e), S)

(***************************************************************************)
(* scan_raw_text, scan_rcdata_text, scan_plaintext_text                    *)
(***************************************************************************)
END_SCRIPT   == <<"<", "/", "S", "C", "R", "I", "P", "T">>
END_STYLE    == <<"<", "/", "S", "T", "Y", "L", "E">>
END_TITLE    == <<"<", "/", "T", "I", "T", "L", "E">>
END_TEXTAREA == <<"<", "/", "T", "E", "X", "T", "A", "R", "E", "A">>

\* The loop both text scanners run: <<cursor, has_content, end mark>>
RECURSIVE text_loop(_, _, _, _, _, _)
text_loop(inp, i, end_delimiter, delimiter_index, has_content, mk) ==
    LET c == LA(inp, i) IN
    IF c = EOFC THEN <<i, has_content, mk>>
    ELSE IF towupper(c) = end_delimiter[delimiter_index + 1]
    THEN IF delimiter_index + 1 = Len(end_delimiter)
         THEN <<i, has_content, mk>>
         ELSE text_loop(inp, i + 1, end_delimiter, delimiter_index + 1,
                        has_content, mk)
    ELSE IF c = "{"
    THEN IF LA(inp, i + 1) \in {"{", "%", "#"}
         THEN <<i + 1, has_content, MarkAt(i)>>
         ELSE LET j == Adv(inp, i + 1) IN
              text_loop(inp, j, end_delimiter, 0, TRUE, MarkAt(j))
    ELSE text_loop(inp, i + 1, end_delimiter, 0, TRUE, MarkAt(i + 1))

\* A raw-text scanner that emits its token whether or not it holds content
scan_raw_text_lenient(S, inp, i) ==
    IF Len(S.tags) = 0 THEN Ret(FALSE, NoSymbol, i, Unmarked, S)
    ELSE IF array_back(S.tags).type \notin {"SCRIPT", "STYLE"}
    THEN Ret(FALSE, NoSymbol, i, Unmarked, S)
    ELSE LET end_delimiter == IF array_back(S.tags).type = "SCRIPT"
                              THEN END_SCRIPT ELSE END_STYLE
             r == text_loop(inp, i, end_delimiter, 0, FALSE, MarkAt(i))
         IN  Ret(TRUE, "RAW_TEXT", r[1], r[3], S)

scan_raw_text(S, inp, i) ==
    IF Len(S.tags) = 0 THEN Ret(FALSE, NoSymbol, i, Unmarked, S)
    ELSE IF array_back(S.tags).type \notin {"SCRIPT", "STYLE"}
    THEN Ret(FALSE, NoSymbol, i, Unmarked, S)
    ELSE LET end_delimiter == IF array_back(S.tags).type = "SCRIPT"
                              THEN END_SCRIPT ELSE END_STYLE
             r == text_loop(inp, i, end_delimiter, 0, FALSE, MarkAt(i))
         IN  IF r[2] THEN Ret(TRUE, "RAW_TEXT", r[1], r[3], S)
             ELSE Ret(FALSE, NoSymbol, r[1], r[3], S)

scan_rcdata_text(S, inp, i) ==
    IF Len(S.tags) = 0 THEN Ret(FALSE, NoSymbol, i, Unmarked, S)
    ELSE IF array_back(S.tags).type \notin {"TITLE", "TEXTAREA"}
    THEN Ret(FALSE, NoSymbol, i, Unmarked, S)
    ELSE LET end_delimiter == IF array_back(S.tags).type = "TITLE"
                              THEN END_TITLE ELSE END_TEXTAREA
             r == text_loop(inp, i, end_delimiter, 0, FALSE, MarkAt(i))
         IN  IF r[2] THEN Ret(TRUE, "RCDATA_TEXT", r[1], r[3], S)
             ELSE Ret(FALSE, NoSymbol, r[1], r[3], S)

\* A plaintext scanner that stops in front of the first `<`
scan_plaintext_text_to_tag(S, inp, i) ==
    LET e == CHOOSE k \in i..Len(inp) :
                 /\ LA(inp, k) \in {"<", EOFC}
                 /\ \A m \in i..(k - 1) : LA(inp, m) \notin {"<", EOFC}
    IN
    IF Len(S.tags) = 0 THEN Ret(FALSE, NoSymbol, i, Unmarked, S)
    ELSE IF array_back(S.tags).type # "PLAINTEXT"
    THEN Ret(FALSE, NoSymbol, i, Unmarked, S)
    ELSE Ret(TRUE, "PLAINTEXT_TEXT", e, MarkAt(e), pop_tag(S))

scan_plaintext_text(S, inp, i) ==
    IF Len(S.tags) = 0 THEN Ret(FALSE, NoSymbol, i, Unmarked, S)
    ELSE IF array_back(S.tags).type # "PLAINTEXT"
    THEN Ret(FALSE, NoSymbol, i, Unmarked, S)
    ELSE Ret(TRUE, "PLAINTEXT_TEXT", Len(inp), MarkAt(Len(inp)), pop_tag(S))

(***************************************************************************)
(* scan_implicit_end_tag                                                   *)
(***************************************************************************)
\* An end-of-input rule that closes only HTML, HEAD and BODY
eof_closes_parent_root(S, inp, i) ==
    /\ ~in_foreign_content(S.tags)
    /\ Len(S.tags) > 0
    /\ array_back(S.tags).type \in {"HTML", "HEAD", "BODY"}
    /\ AtEof(inp, i)

\* An end-of-input rule that asks for no parent
eof_closes_orphan(S, inp, i) ==
    /\ ~in_foreign_content(S.tags)
    /\ AtEof(inp, i)

\* `!foreign && parent && lexer->eof(lexer)`
eof_closes_parent(S, inp, i) ==
    /\ ~in_foreign_content(S.tags)
    /\ Len(S.tags) > 0
    /\ AtEof(inp, i)

scan_implicit_end_tag(S, inp, i, mk) ==
    LET foreign    == in_foreign_content(S.tags)
        has_parent == Len(S.tags) > 0
        popped     == Ret(TRUE, "IMPLICIT_END_TAG", i, mk, pop_tag(S))
    IN
    IF eof_closes_parent(S, inp, i) THEN popped
    ELSE
    LET is_closing_tag == LA(inp, i) = "/"
        i1             == IF is_closing_tag THEN i + 1 ELSE i
    IN
    IF ~is_closing_tag /\ has_parent /\ tag_is_void(array_back(S.tags)) THEN popped
    ELSE
    LET uppercase == ~foreign \/ (has_parent /\ array_back(S.tags).type # "CUSTOM")
        rd        == scan_tag_name(inp, i1, uppercase)
        tag_name  == rd[1]
        j         == rd[2]
        next_tag  == tag_for_name(tag_name)
        pop_at_j  == Ret(TRUE, "IMPLICIT_END_TAG", j, mk, pop_tag(S))
        fail_at_j == Ret(FALSE, NoSymbol, j, mk, S)
    IN
    IF Len(tag_name) = 0 /\ ~AtEof(inp, j) THEN fail_at_j
    ELSE IF is_closing_tag
    THEN IF has_parent /\ tag_eq(array_back(S.tags), next_tag) THEN fail_at_j
         ELSE IF found_in_stack(S.tags, next_tag) THEN pop_at_j
         ELSE fail_at_j
    ELSE IF /\ has_parent
            /\ ~foreign
            /\ \/ ~tag_can_contain(array_back(S.tags), next_tag)
               \/ /\ array_back(S.tags).type \in {"HTML", "HEAD", "BODY"}
                  /\ AtEof(inp, j)
    THEN pop_at_j
    ELSE fail_at_j

(***************************************************************************)
(* scan_start_tag_name                                                     *)
(***************************************************************************)
StartSymbolOf(type) ==
    CASE type = "SCRIPT"    -> "SCRIPT_START_TAG_NAME"
      [] type = "STYLE"     -> "STYLE_START_TAG_NAME"
      [] type = "TITLE"     -> "TITLE_START_TAG_NAME"
      [] type = "TEXTAREA"  -> "TEXTAREA_START_TAG_NAME"
      [] type = "PLAINTEXT" -> "PLAINTEXT_START_TAG_NAME"
      [] type \in {"SVG", "MATH"} -> "FOREIGN_START_TAG_NAME"
      [] OTHER -> "HTML_START_TAG_NAME"

scan_start_tag_name(S, inp, i, mk) ==
    LET foreign_context == in_foreign_content(S.tags)
        rd       == scan_tag_name(inp, i, ~foreign_context)
        tag_name == rd[1]
        j        == rd[2]
        tag      == tag_for_name(tag_name)
    IN
    IF Len(tag_name) = 0 THEN Ret(FALSE, NoSymbol, j, mk, S)
    ELSE IF foreign_context
    THEN Ret(TRUE, "FOREIGN_START_TAG_NAME", j, mk,
             [S EXCEPT !.tags = array_push(S.tags, Tag("CUSTOM", tag_name))])
    ELSE IF tag_is_void(tag)
    THEN Ret(TRUE, "VOID_START_TAG_NAME", j, mk, S)
    ELSE Ret(TRUE, StartSymbolOf(tag.type), j, mk,
             [S EXCEPT !.tags = array_push(S.tags, tag)])

(***************************************************************************)
(* scan_end_tag_name                                                       *)
(***************************************************************************)
scan_end_tag_name(S, inp, i, mk) ==
    LET foreign_context == in_foreign_content(S.tags)
        has_top   == Len(S.tags) > 0
        uppercase == \/ ~foreign_context
                     \/ (has_top /\ array_back(S.tags).type \in {"SVG", "MATH"})
        rd        == scan_tag_name(inp, i, uppercase)
        tag_name  == rd[1]
        j         == rd[2]
        tag       == IF foreign_context /\ ~uppercase
                     THEN Tag("CUSTOM", tag_name)
                     ELSE tag_for_name(tag_name)
    IN
    IF Len(tag_name) = 0 THEN Ret(FALSE, NoSymbol, j, mk, S)
    ELSE IF has_top /\ tag_eq(array_back(S.tags), tag)
    THEN Ret(TRUE, "END_TAG_NAME", j, mk, pop_tag(S))
    ELSE IF found_in_stack(S.tags, tag)
    THEN Ret(TRUE, "END_TAG_NAME", j, mk, S)
    ELSE Ret(TRUE, "ERRONEOUS_END_TAG_NAME", j, mk, S)

(***************************************************************************)
(* scan_self_closing_tag_delimiter                                         *)
(***************************************************************************)
scan_self_closing_tag_delimiter(S, inp, i, mk) ==
    IF LA(inp, i + 1) = ">"
    THEN Ret(TRUE, "SELF_CLOSING_TAG_DELIMITER", i + 2, mk,
             IF in_foreign_content(S.tags) /\ Len(S.tags) > 0
             THEN pop_tag(S) ELSE S)
    ELSE Ret(FALSE, NoSymbol, i + 1, mk, S)

(***************************************************************************)
(* The filter colon (inline in scan)                                       *)
(***************************************************************************)
\* An argument start that also admits a blank
is_filter_argument_start_or_blank(c) ==
    \/ c \in {"\"", "'", "+", "-", ".", "_", " "}
    \/ c \in DigitSet
    \/ c \in LowerSet
    \/ c \in UpperSet

is_filter_argument_start(c) ==
    \/ c \in {"\"", "'", "+", "-", ".", "_"}
    \/ c \in DigitSet
    \/ c \in LowerSet
    \/ c \in UpperSet

\* A filter colon that looks behind the `:` without advancing over it
scan_filter_colon_peeking(S, inp, i) ==
    IF is_filter_argument_start(LA(inp, i + 1))
    THEN Ret(TRUE, "FILTER_COLON", i + 1, MarkAt(i + 1), S)
    ELSE Ret(FALSE, NoSymbol, i, MarkAt(i), S)

scan_filter_colon(S, inp, i) ==
    IF is_filter_argument_start(LA(inp, i + 1))
    THEN Ret(TRUE, "FILTER_COLON", i + 1, MarkAt(i + 1), S)
    ELSE Ret(FALSE, NoSymbol, i + 1, MarkAt(i), S)

(***************************************************************************)
(* scan: the dispatcher                                                    *)
(***************************************************************************)
StartTagSymbols ==
    { "HTML_START_TAG_NAME", "VOID_START_TAG_NAME", "FOREIGN_START_TAG_NAME",
      "SCRIPT_START_TAG_NAME", "STYLE_START_TAG_NAME", "TITLE_START_TAG_NAME",
      "TEXTAREA_START_TAG_NAME", "PLAINTEXT_START_TAG_NAME" }

EndTagSymbols == { "END_TAG_NAME", "ERRONEOUS_END_TAG_NAME" }

Ran(sub, r) == [r EXCEPT !.sub = sub]

\* An HTML branch that looks for the `>` behind a `/` before it calls the
\* self-closing scanner
scan_html_peeking(S, inp, i0, valid) ==
    LET i == SkipWhile(inp, i0, {" ", "\t", "\n", "\r", "\f"})
        c == LA(inp, i)
        valid_start_tag == valid \cap StartTagSymbols # {}
        valid_end_tag   == valid \cap EndTagSymbols # {}
        nothing == Ret(FALSE, NoSymbol, i, Unmarked, S)
    IN
    IF c = "<"
    THEN IF LA(inp, i + 1) = "!"
         THEN Ran("comment", scan_comment(S, inp, i + 2, MarkAt(i)))
         ELSE IF "IMPLICIT_END_TAG" \in valid
         THEN Ran("implicit_end_tag", scan_implicit_end_tag(S, inp, i + 1, MarkAt(i)))
         ELSE Ret(FALSE, NoSymbol, i + 1, MarkAt(i), S)
    ELSE IF c = EOFC
    THEN IF "IMPLICIT_END_TAG" \in valid
         THEN Ran("implicit_end_tag", scan_implicit_end_tag(S, inp, i, Unmarked))
         ELSE nothing
    ELSE IF c = "/"
    THEN IF "SELF_CLOSING_TAG_DELIMITER" \in valid /\ LA(inp, i + 1) = ">"
         THEN Ran("self_closing_tag_delimiter",
                  scan_self_closing_tag_delimiter(S, inp, i, Unmarked))
         ELSE nothing
    ELSE IF (valid_start_tag \/ valid_end_tag) /\ "RAW_TEXT" \notin valid
    THEN IF valid_end_tag
         THEN Ran("end_tag_name", scan_end_tag_name(S, inp, i, Unmarked))
         ELSE Ran("start_tag_name", scan_start_tag_name(S, inp, i, Unmarked))
    ELSE nothing

\* An HTML branch that calls the implicit-end-tag scanner whether or not
\* IMPLICIT_END_TAG is valid
scan_html_unflagged(S, inp, i0, valid) ==
    LET i == SkipWhile(inp, i0, {" ", "\t", "\n", "\r", "\f"})
        c == LA(inp, i)
        valid_start_tag == valid \cap StartTagSymbols # {}
        valid_end_tag   == valid \cap EndTagSymbols # {}
        nothing == Ret(FALSE, NoSymbol, i, Unmarked, S)
    IN
    IF c = "<"
    THEN IF LA(inp, i + 1) = "!"
         THEN Ran("comment", scan_comment(S, inp, i + 2, MarkAt(i)))
         ELSE Ran("implicit_end_tag", scan_implicit_end_tag(S, inp, i + 1, MarkAt(i)))
    ELSE IF c = EOFC
    THEN Ran("implicit_end_tag", scan_implicit_end_tag(S, inp, i, Unmarked))
    ELSE IF c = "/"
    THEN IF "SELF_CLOSING_TAG_DELIMITER" \in valid
         THEN Ran("self_closing_tag_delimiter",
                  scan_self_closing_tag_delimiter(S, inp, i, Unmarked))
         ELSE nothing
    ELSE IF (valid_start_tag \/ valid_end_tag) /\ "RAW_TEXT" \notin valid
    THEN IF valid_end_tag
         THEN Ran("end_tag_name", scan_end_tag_name(S, inp, i, Unmarked))
         ELSE Ran("start_tag_name", scan_start_tag_name(S, inp, i, Unmarked))
    ELSE nothing

\* The HTML branch: whitespace is skipped, then the next character decides.
scan_html(S, inp, i0, valid) ==
    LET i == SkipWhile(inp, i0, {" ", "\t", "\n", "\r", "\f"})
        c == LA(inp, i)
        valid_start_tag == valid \cap StartTagSymbols # {}
        valid_end_tag   == valid \cap EndTagSymbols # {}
        nothing == Ret(FALSE, NoSymbol, i, Unmarked, S)
    IN
    IF c = "<"
    THEN IF LA(inp, i + 1) = "!"
         THEN Ran("comment", scan_comment(S, inp, i + 2, MarkAt(i)))
         ELSE IF "IMPLICIT_END_TAG" \in valid
         THEN Ran("implicit_end_tag", scan_implicit_end_tag(S, inp, i + 1, MarkAt(i)))
         ELSE Ret(FALSE, NoSymbol, i + 1, MarkAt(i), S)
    ELSE IF c = EOFC
    THEN IF "IMPLICIT_END_TAG" \in valid
         THEN Ran("implicit_end_tag", scan_implicit_end_tag(S, inp, i, Unmarked))
         ELSE nothing
    ELSE IF c = "/"
    THEN IF "SELF_CLOSING_TAG_DELIMITER" \in valid
         THEN Ran("self_closing_tag_delimiter",
                  scan_self_closing_tag_delimiter(S, inp, i, Unmarked))
         ELSE nothing
    ELSE IF (valid_start_tag \/ valid_end_tag) /\ "RAW_TEXT" \notin valid
    THEN IF valid_end_tag
         THEN Ran("end_tag_name", scan_end_tag_name(S, inp, i, Unmarked))
         ELSE Ran("start_tag_name", scan_start_tag_name(S, inp, i, Unmarked))
    ELSE nothing

\* A dispatcher that runs the RCDATA scanner whatever tag-name tokens are
\* valid
scan_rcdata_unguarded(S, inp, i, valid, mem) ==
    LET valid_start_tag == valid \cap StartTagSymbols # {}
        valid_end_tag   == valid \cap EndTagSymbols # {}
    IN
    IF "DJANGO_COMMENT_CONTENT" \in valid
    THEN Ran("django_comment_content", scan_django_comment_content(S, inp, i))
    ELSE IF "VERBATIM_START" \in valid
    THEN Ran("verbatim_start", scan_verbatim_start(S, inp, i, mem))
    ELSE IF "VERBATIM_BLOCK_CONTENT" \in valid
    THEN Ran("verbatim_content", scan_verbatim_content(S, inp, i))
    ELSE IF "VALIDATE_GENERIC_BLOCK" \in valid \/ "VALIDATE_GENERIC_SIMPLE" \in valid
    THEN Ran("validate_generic_tag", scan_validate_generic_tag(S, inp, i, valid))
    ELSE IF "FILTER_COLON" \in valid /\ LA(inp, i) = ":"
    THEN Ran("filter_colon", scan_filter_colon(S, inp, i))
    ELSE IF "RAW_TEXT" \in valid /\ ~valid_end_tag /\ ~valid_start_tag
    THEN Ran("raw_text", scan_raw_text(S, inp, i))
    ELSE IF "RCDATA_TEXT" \in valid
    THEN Ran("rcdata_text", scan_rcdata_text(S, inp, i))
    ELSE IF "PLAINTEXT_TEXT" \in valid
    THEN Ran("plaintext_text", scan_plaintext_text(S, inp, i))
    ELSE scan_html(S, inp, i, valid)

\* scan(scanner, lexer, valid_symbols), the lexer reading inp from cursor i;
\* mem is the number of realloc calls that will still succeed.
scan(S, inp, i, valid, mem) ==
    LET valid_start_tag == valid \cap StartTagSymbols # {}
        valid_end_tag   == valid \cap EndTagSymbols # {}
    IN
    IF "DJANGO_COMMENT_CONTENT" \in valid
    THEN Ran("django_comment_content", scan_django_comment_content(S, inp, i))
    ELSE IF "VERBATIM_START" \in valid
    THEN Ran("verbatim_start", scan_verbatim_start(S, inp, i, mem))
    ELSE IF "VERBATIM_BLOCK_CONTENT" \in valid
    THEN Ran("verbatim_content", scan_verbatim_content(S, inp, i))
    ELSE IF "VALIDATE_GENERIC_BLOCK" \in valid \/ "VALIDATE_GENERIC_SIMPLE" \in valid
    THEN Ran("validate_generic_tag", scan_validate_generic_tag(S, inp, i, valid))
    ELSE IF "FILTER_COLON" \in valid /\ LA(inp, i) = ":"
    THEN Ran("filter_colon", scan_filter_colon(S, inp, i))
    ELSE IF "RAW_TEXT" \in valid /\ ~valid_end_tag /\ ~valid_start_tag
    THEN Ran("raw_text", scan_raw_text(S, inp, i))
    ELSE IF "RCDATA_TEXT" \in valid /\ ~valid_end_tag /\ ~valid_start_tag
    THEN Ran("rcdata_text", scan_rcdata_text(S, inp, i))
    ELSE IF "PLAINTEXT_TEXT" \in valid
    THEN Ran("plaintext_text", scan_plaintext_text(S, inp, i))
    ELSE scan_html(S, inp, i, valid)

(***************************************************************************)
(* Bytes. A serialized buffer is a sequence of numbers 0..255. A character *)
(* is stored as its code, a tag type as its enumerator, a count as two     *)
(* bytes, low byte first.                                                  *)
(***************************************************************************)
ByteChars ==
    << "x00", "x01", "x02", "x03", "x04", "x05", "x06", "x07",
       "x08", "\t", "\n", "x0B", "\f", "\r", "x0E", "x0F",
       "x10", "x11", "x12", "x13", "x14", "x15", "x16", "x17",
       "x18", "x19", "x1A", "x1B", "x1C", "x1D", "x1E", "x1F",
       " ", "!", "\"", "#", "$", "%", "&", "'",
       "(", ")", "*", "+", ",", "-", ".", "/",
       "0", "1", "2", "3", "4", "5", "6", "7",
       "8", "9", ":", ";", "<", "=", ">", "?",
       "@", "A", "B", "C", "D", "E", "F", "G",
       "H", "I", "J", "K", "L", "M", "N", "O",
       "P", "Q", "R", "S", "T", "U", "V", "W",
       "X", "Y", "Z", "[", "x5C", "]", "^", "_",
       "x60", "a", "b", "c", "d", "e", "f", "g",
       "h", "i", "j", "k", "l", "m", "n", "o",
       "p", "q", "r", "s", "t", "u", "v", "w",
       "x", "y", "z", "{", "|", "}", "~", "x7F",
       "x80", "x81", "x82", "x83", "x84", "x85", "x86", "x87",
       "x88", "x89", "x8A", "x8B", "x8C", "x8D", "x8E", "x8F",
       "x90", "x91", "x92", "x93", "x94", "x95", "x96", "x97",
       "x98", "x99", "x9A", "x9B", "x9C", "x9D", "x9E", "x9F",
       "xA0", "xA1", "xA2", "xA3", "xA4", "xA5", "xA6", "xA7",
       "xA8", "xA9", "xAA", "xAB", "xAC", "xAD", "xAE", "xAF",
       "xB0", "xB1", "xB2", "xB3", "xB4", "xB5", "xB6", "xB7",
       "xB8", "xB9", "xBA", "xBB", "xBC", "xBD", "xBE", "xBF",
       "xC0", "xC1", "xC2", "xC3", "xC4", "xC5", "xC6", "xC7",
       "xC8", "xC9", "xCA", "xCB", "xCC", "xCD", "xCE", "xCF",
       "xD0", "xD1", "xD2", "xD3", "xD4", "xD5", "xD6", "xD7",
       "xD8", "xD9", "xDA", "xDB", "xDC", "xDD", "xDE", "xDF",
       "xE0", "xE1", "xE2", "xE3", "xE4", "xE5", "xE6", "xE7",
       "xE8", "xE9", "xEA", "xEB", "xEC", "xED", "xEE", "xEF",
       "xF0", "xF1", "xF2", "xF3", "xF4", "xF5", "xF6", "xF7",
       "xF8", "xF9", "xFA", "xFB", "xFC", "xFD", "xFE", "xFF" >>

CharCode == [c \in Range(ByteChars) |-> (CHOOSE k \in DOMAIN ByteChars : ByteChars[k] = c) - 1]

\* (char)c, as a byte
Ord(c) == CharCode[c]

\* the character a byte holds
Chr(b) == ByteChars[b + 1]

\* enum TagType, in declaration order
TagTypeOrder ==
    << "AREA", "BASE", "BR", "COL", "EMBED", "HR", "IMG", "INPUT",
       "LINK", "META", "PARAM", "SOURCE", "TRACK", "WBR",
       "END_OF_VOID_TAGS", "A", "BODY", "DIV", "HEAD", "HTML", "LI",
       "MATH", "P", "PLAINTEXT", "SCRIPT", "SPAN", "STYLE", "SVG", "TD",
       "TEXTAREA", "TITLE", "TR", "UL", "CUSTOM" >>

TypeCode == [t \in Range(TagTypeOrder) |-> (CHOOSE k \in DOMAIN TagTypeOrder : TagTypeOrder[k] = t) - 1]

\* (char)tag.type
TypeByte(type) == TypeCode[type]

\* (TagType)buffer[k]; a byte that is no enumerator reads as INVALID
TypeOfByte(b) == IF b < Len(TagTypeOrder) THEN TagTypeOrder[b + 1] ELSE "INVALID"

U16Bytes(n) == << n % 256, n \div 256 >>

U16Of(lo, hi) == lo + 256 * hi

Min(a, b) == IF a < b THEN a ELSE b

(***************************************************************************)
(* serialize                                                               *)
(***************************************************************************)
TREE_SITTER_SERIALIZATION_BUFFER_SIZE == 1024

UINT8_MAX == 255

UINT16_MAX == 65535

\* A tag loop that writes every tag, whatever room is left
RECURSIVE serialize_tags_all(_, _, _, _)
serialize_tags_all(tg, tag_count, k, bytes) ==
    IF k >= tag_count THEN <<bytes, k>>
    ELSE
    LET tag == tg[k + 1] IN
    IF tag.type = "CUSTOM"
    THEN LET name_length == Min(Len(tag.name), UINT8_MAX) IN
         serialize_tags_all(tg, tag_count, k + 1,
             bytes \o <<TypeByte(tag.type), name_length>>
                   \o [j \in 1..name_length |-> Ord(tag.name[j])])
    ELSE serialize_tags_all(tg, tag_count, k + 1, Append(bytes, TypeByte(tag.type)))

\* The tag loop: <<bytes written so far, serialized_tag_count>>
RECURSIVE serialize_tags(_, _, _, _)
serialize_tags(tg, tag_count, k, bytes) ==
    IF k >= tag_count THEN <<bytes, k>>
    ELSE
    LET tag  == tg[k + 1]
        size == Len(bytes)
    IN
    IF tag.type = "CUSTOM"
    THEN LET name_length == Min(Len(tag.name), UINT8_MAX) IN
         IF size + 2 + name_length >= TREE_SITTER_SERIALIZATION_BUFFER_SIZE
         THEN <<bytes, k>>
         ELSE serialize_tags(tg, tag_count, k + 1,
                  bytes \o <<TypeByte(tag.type), name_length>>
                        \o [j \in 1..name_length |-> Ord(tag.name[j])])
    ELSE IF size + 1 >= TREE_SITTER_SERIALIZATION_BUFFER_SIZE
         THEN <<bytes, k>>
         ELSE serialize_tags(tg, tag_count, k + 1, Append(bytes, TypeByte(tag.type)))

\* The bytes serialize writes; the size it returns is their number.
serialize(S) ==
    LET tag_count      == Min(Len(S.tags), UINT16_MAX)
        verbatim_len   == Min(S.vlen, UINT8_MAX)
        head           == <<verbatim_len>>
                          \o [j \in 1..verbatim_len |-> Ord(S.vbuf[j])]
        tag_header_pos == Len(head)
        r == serialize_tags(S.tags, tag_count, 0,
                            head \o <<0, 0>> \o U16Bytes(tag_count))
        cnt == U16Bytes(r[2])
    IN  [r[1] EXCEPT ![tag_header_pos + 1] = cnt[1],
                     ![tag_header_pos + 2] = cnt[2]]

(***************************************************************************)
(* deserialize                                                             *)
(***************************************************************************)
\* buffer[k], k counted from 0. The host hands over `length` bytes; a read
\* at or past the end of buf is a read outside the buffer.
ByteAt(buf, k) == IF k < Len(buf) THEN buf[k + 1] ELSE 0

\* The first loop: <<tags, size read so far>>
RECURSIVE deserialize_tags(_, _, _, _, _)
deserialize_tags(buf, size, iter, serialized_tag_count, tg) ==
    IF iter >= serialized_tag_count THEN <<tg, size>>
    ELSE
    LET type == TypeOfByte(ByteAt(buf, size)) IN
    IF type = "CUSTOM"
    THEN LET name_length == ByteAt(buf, size + 1)
             name == [j \in 1..name_length |-> Chr(ByteAt(buf, size + 1 + j))]
         IN  deserialize_tags(buf, size + 2 + name_length, iter + 1,
                              serialized_tag_count, Append(tg, Tag("CUSTOM", name)))
    ELSE deserialize_tags(buf, size + 1, iter + 1, serialized_tag_count,
                          Append(tg, Tag(type, << >>)))

\* A scanner that keeps what it held
uncleared_scanner(S) == S

\* tag_free of every tag, array_clear and clear_verbatim_suffix
cleared_scanner(S) == [S EXCEPT !.tags = << >>, !.vlen = 0]

\* deserialize(scanner, buffer, length): the scanner state it leaves
deserialize(S, buf, length, mem) ==
    LET cleared == cleared_scanner(S) IN
    IF length = 0 THEN cleared
    ELSE
    LET verbatim_len == ByteAt(buf, 0)
        has_suffix   == verbatim_len > 0 /\ 1 + verbatim_len <= length
        e            == ensure_verbatim_capacity(S.vcap, verbatim_len, mem)
        withSuffix   ==
            IF has_suffix /\ e[1]
            THEN [cleared EXCEPT
                     !.vbuf = [j \in 1..verbatim_len |-> Chr(ByteAt(buf, j))]
                              \o SubSeq(S.vbuf, verbatim_len + 1, Len(S.vbuf)),
                     !.vlen = verbatim_len,
                     !.vcap = e[2]]
            ELSE cleared
        size == IF has_suffix THEN 1 + verbatim_len ELSE 1
    IN
    IF size + 4 > length THEN withSuffix
    ELSE
    LET serialized_tag_count == U16Of(ByteAt(buf, size), ByteAt(buf, size + 1))
        tag_count            == U16Of(ByteAt(buf, size + 2), ByteAt(buf, size + 3))
    IN
    IF tag_count = 0 THEN withSuffix
    ELSE
    LET r == deserialize_tags(buf, size + 4, 0, serialized_tag_count, << >>)
        n == Len(r[1])
    IN  [withSuffix EXCEPT
            !.tags = r[1] \o [j \in 1..(IF tag_count > n THEN tag_count - n ELSE 0)
                               |-> tag_new]]

\* One past the highest buffer offset deserialize reads (0: it reads none)
deserialize_read_end(buf, length) ==
    IF length = 0 THEN 0
    ELSE
    LET verbatim_len == ByteAt(buf, 0)
        has_suffix   == verbatim_len > 0 /\ 1 + verbatim_len <= length
        size         == IF has_suffix THEN 1 + verbatim_len ELSE 1
    IN
    IF size + 4 > length THEN size
    ELSE
    LET serialized_tag_count == U16Of(ByteAt(buf, size), ByteAt(buf, size + 1))
        tag_count            == U16Of(ByteAt(buf, size + 2), ByteAt(buf, size + 3))
    IN
    IF tag_count = 0 THEN size + 4
    ELSE deserialize_tags(buf, size + 4, 0, serialized_tag_count, << >>)[2]

(***************************************************************************)
(* The scanner and its host. The host parser owns one scanner               *)
(* (tree_sitter_htmldjango_external_scanner_create), reads one document     *)
(* and, at its position pos, either calls scan with a validity vector or    *)
(* lets the grammar's own lexer consume a character. An accepted token      *)
(* moves the host to the token's end; a refused one leaves it in place.     *)
(***************************************************************************)
Current == ScannerOf(tags, verbatim_suffix, verbatim_length, verbatim_capacity)

\* tree_sitter_htmldjango_external_scanner_create: ts_calloc zeroes the struct
Fresh == ScannerOf(<< >>, << >>, 0, 0)

NoCall ==
    [op |-> "none", valid |-> {}, start |-> 0, mem |-> 0, ok |-> FALSE,
     sym |-> NoSymbol, end |-> 0, cur |-> 0, sub |-> "none",
     pre_tags |-> << >>, pre_suffix |-> << >>,
     length |-> 0, junk |-> 0, read_end |-> 0]

NoBuffer == [bytes |-> << >>, tags |-> << >>, suffix |-> << >>]

CallOf(valid, mem, r) ==
    [op |-> "scan", valid |-> valid, start |-> pos, mem |-> mem, ok |-> r.ok,
     sym |-> r.sym, end |-> r.end, cur |-> r.cur, sub |-> r.sub,
     pre_tags |-> tags, pre_suffix |-> SuffixOf(Current),
     length |-> 0, junk |-> 0, read_end |-> 0]

Install(r) ==
    /\ tags' = r.tags
    /\ verbatim_suffix' = r.vbuf
    /\ verbatim_length' = r.vlen
    /\ verbatim_capacity' = r.vcap

\* tree_sitter_htmldjango_external_scanner_scan, called at pos
Scan(valid, mem) ==
    LET r == scan(Current, doc, pos, valid, mem) IN
    /\ Install(r)
    /\ pos' = IF r.ok THEN r.end ELSE pos
    /\ last' = CallOf(valid, mem, r)
    /\ UNCHANGED << buffer, doc, phase, trace >>

\* The grammar's own lexer consumes one character.
Lex ==
    /\ pos < Len(doc)
    /\ pos' = pos + 1
    /\ last' = NoCall
    /\ UNCHANGED << scannerVars, buffer, doc, phase, trace >>

InitWith(docs) ==
    /\ doc \in docs
    /\ pos = 0
    /\ tags = Fresh.tags
    /\ verbatim_suffix = Fresh.vbuf
    /\ verbatim_length = Fresh.vlen
    /\ verbatim_capacity = Fresh.vcap
    /\ buffer = NoBuffer
    /\ phase = "free"
    /\ trace = << >>
    /\ last = NoCall

\* The documents made of at most n of the fragments in frags
RECURSIVE Flatten(_)
Flatten(fs) == IF fs = << >> THEN << >> ELSE Head(fs) \o Flatten(Tail(fs))

DocsOf(frags, n) == { Flatten(fs) : fs \in UNION { [1..k -> frags] : k \in 0..n } }

(***************************************************************************)
(* Verbatim blocks: the host reads `verbatim`, calls scan with              *)
(* VERBATIM_START valid, then with VERBATIM_BLOCK_CONTENT valid.            *)
(***************************************************************************)
MaxVerbatimFrags == 3

\* "{", "{% endverbatim", " foo %}", "%}", " " and a newline
VerbatimFrags ==
    { <<"{">>,
      <<"{", "%", " ">> \o KW_ENDVERBATIM,
      <<" ", "f", "o", "o", " ", "%", "}">>,
      <<"%", "}">>,
      <<" ">>,
      <<"\n">> }

VerbatimDocs == DocsOf(VerbatimFrags, MaxVerbatimFrags)

ScanVerbatimStart == \E mem \in {0, 1} : Scan({"VERBATIM_START"}, mem)

ScanVerbatimContent == Scan({"VERBATIM_BLOCK_CONTENT"}, 1)

InitVerbatim == InitWith(VerbatimDocs)

NextVerbatim == ScanVerbatimStart \/ ScanVerbatimContent

SpecVerbatim == InitVerbatim /\ [][NextVerbatim]_vars

(***************************************************************************)
(* Django block comments: the host reads `{% comment %}` and calls scan     *)
(* with DJANGO_COMMENT_CONTENT valid.                                       *)
(***************************************************************************)
MaxCommentFrags == 3

\* "{", "{%", "{% endcomment", "%}", a newline before "%}", and "x"
CommentFrags ==
    { <<"{">>,
      <<"{", "%">>,
      <<"{", "%", " ">> \o KW_ENDCOMMENT,
      <<"%", "}">>,
      <<"\n", "%", "}">>,
      <<"x">> }

CommentDocs == DocsOf(CommentFrags, MaxCommentFrags)

ScanDjangoComment == Scan({"DJANGO_COMMENT_CONTENT"}, 1)

InitComment == InitWith(CommentDocs)

NextComment == ScanDjangoComment \/ Lex

SpecComment == InitComment /\ [][NextComment]_vars

(***************************************************************************)
(* Generic tags: the host reads `{%` and calls scan with the validate       *)
(* tokens valid, in front of the tag's name.                                *)
(***************************************************************************)
MaxGenericFrags == 3

\* "foo ", "{% endfoo ", "{%endfoo", "x", "if ", "endfoo ", "{" and "_"
GenericFrags ==
    { <<"f", "o", "o", " ">>,
      <<"{", "%", " ", "e", "n", "d", "f", "o", "o", " ">>,
      <<"{", "%", "e", "n", "d", "f", "o", "o">>,
      <<"x">>,
      <<"i", "f", " ">>,
      <<"e", "n", "d", "f", "o", "o", " ">>,
      <<"{">>,
      <<"_">> }

GenericDocs == DocsOf(GenericFrags, MaxGenericFrags)

GenericValids ==
    { {"VALIDATE_GENERIC_BLOCK"}, {"VALIDATE_GENERIC_SIMPLE"},
      {"VALIDATE_GENERIC_BLOCK", "VALIDATE_GENERIC_SIMPLE"} }

ScanValidateGeneric == \E valid \in GenericValids : Scan(valid, 1)

InitGeneric == InitWith(GenericDocs)

NextGeneric == ScanValidateGeneric \/ Lex

SpecGeneric == InitGeneric /\ [][NextGeneric]_vars

(***************************************************************************)
(* Tag names: the host reads `<` or `</` and calls scan with the start-tag  *)
(* or the end-tag tokens valid, in front of a name.                         *)
(***************************************************************************)
MaxTagFrags == 3

\* The names p, div, svg, br, script, x-a and Pa, each followed by a space
TagFrags ==
    { <<"p", " ">>,
      <<"d", "i", "v", " ">>,
      <<"s", "v", "g", " ">>,
      <<"b", "r", " ">>,
      <<"s", "c", "r", "i", "p", "t", " ">>,
      <<"x", "-", "a", " ">>,
      <<"P", "a", " ">> }

TagDocs == DocsOf(TagFrags, MaxTagFrags)

ScanStartTagName == Scan(StartTagSymbols, 1)

ScanEndTagName == Scan(EndTagSymbols, 1)

InitTags == InitWith(TagDocs)

NextTags == ScanStartTagName \/ ScanEndTagName

SpecTags == InitTags /\ [][NextTags]_vars

(***************************************************************************)
(* Raw text and RCDATA: the host reads `<script>` or `<title>` and calls    *)
(* scan with RAW_TEXT or RCDATA_TEXT valid in the element's content.        *)
(***************************************************************************)
MaxTextFrags == 3

\* "<", "</script", "</TITLE", "{", "{%" and "a"
TextFrags ==
    { <<"<">>,
      <<"<", "/", "s", "c", "r", "i", "p", "t">>,
      <<"<", "/", "T", "I", "T", "L", "E">>,
      <<"{">>,
      <<"{", "%">>,
      <<"a">> }

\* "script>" or "title>", then the element's content
TextDocs ==
    { open \o <<">">> \o body :
        open \in { <<"s", "c", "r", "i", "p", "t">>, <<"t", "i", "t", "l", "e">> },
        body \in DocsOf(TextFrags, MaxTextFrags) }

\* The start tag's name is scanned at the head of the document.
ScanOpeningName == pos = 0 /\ Scan(StartTagSymbols, 1)

\* The grammar consumes the `>` that ends the start tag.
LexTagEnd ==
    /\ phase = "free"
    /\ LA(doc, pos) = ">"
    /\ pos' = pos + 1
    /\ phase' = "content"
    /\ last' = NoCall
    /\ UNCHANGED << scannerVars, buffer, doc, trace >>

ScanRawText == phase = "content" /\ Scan({"RAW_TEXT"}, 1)

ScanRcdataText == phase = "content" /\ Scan({"RCDATA_TEXT"}, 1)

\* Behind a text token the grammar reads on: a character of the end tag or
\* of a Django construct.
LexPastText ==
    /\ phase = "content"
    /\ last.op = "scan"
    /\ pos < Len(doc)
    /\ pos' = pos + 1
    /\ last' = NoCall
    /\ UNCHANGED << scannerVars, buffer, doc, phase, trace >>

InitText == InitWith(TextDocs)

NextText ==
    \/ ScanOpeningName
    \/ LexTagEnd
    \/ ScanRawText
    \/ ScanRcdataText
    \/ LexPastText

SpecText == InitText /\ [][NextText]_vars

(***************************************************************************)
(* Serialization: between scans the host copies the scanner state out       *)
(* (serialize) and later restores it (deserialize), into the scanner it     *)
(* holds or into one it has just created.                                   *)
(***************************************************************************)
MaxSerFrags == 3

MaxNameLen == 256

Rep(c, n) == [j \in 1..n |-> c]

\* A name of MaxNameLen letters, and "p", "svg" and "Cd", each followed by a
\* space
SerFrags ==
    { Rep("a", MaxNameLen) \o <<" ">>,
      <<"p", " ">>,
      <<"s", "v", "g", " ">>,
      <<"C", "d", " ">> }

SerDocs == DocsOf(SerFrags, MaxSerFrags)

\* tree_sitter_htmldjango_external_scanner_serialize
Serialize ==
    /\ buffer' = [bytes |-> serialize(Current), tags |-> tags,
                  suffix |-> SuffixOf(Current)]
    /\ last' = [NoCall EXCEPT !.op = "serialize"]
    /\ UNCHANGED << scannerVars, doc, pos, phase, trace >>

\* tree_sitter_htmldjango_external_scanner_create
Create ==
    /\ Install(Ret(TRUE, NoSymbol, 0, Unmarked, Fresh))
    /\ last' = [NoCall EXCEPT !.op = "create"]
    /\ UNCHANGED << buffer, doc, pos, phase, trace >>

\* tree_sitter_htmldjango_external_scanner_deserialize, handed the bytes
\* serialize wrote
Deserialize ==
    /\ buffer # NoBuffer
    /\ \E mem \in {0, 1} :
          /\ Install(Ret(TRUE, NoSymbol, 0, Unmarked,
                         deserialize(Current, buffer.bytes, Len(buffer.bytes), mem)))
          /\ last' = [NoCall EXCEPT
                         !.op = "deserialize", !.mem = mem,
                         !.sub = IF Current = Fresh THEN "fresh" ELSE "used",
                         !.pre_tags = tags, !.pre_suffix = SuffixOf(Current)]
    /\ UNCHANGED << buffer, doc, pos, phase, trace >>

InitSer == InitWith(SerDocs)

NextSer ==
    \/ ScanStartTagName
    \/ Serialize
    \/ Create
    \/ Deserialize

SpecSer == InitSer /\ [][NextSer]_vars

(***************************************************************************)
(* A document parsed by the host. In an element's content the host calls    *)
(* scan first, with IMPLICIT_END_TAG and COMMENT valid, and runs the        *)
(* grammar's own lexer where scan refuses; after `<` it calls scan for the  *)
(* start tag's name, after `</` for the end tag's name.                     *)
(***************************************************************************)
MaxHtmlFrags == 3

\* "<p>a", "<p>b", "</p>", "<div>", "<li>", "</div>" and "<svg>"
HtmlFrags ==
    { <<"<", "p", ">", "a">>,
      <<"<", "p", ">", "b">>,
      <<"<", "/", "p", ">">>,
      <<"<", "d", "i", "v", ">">>,
      <<"<", "l", "i", ">">>,
      <<"<", "/", "d", "i", "v", ">">>,
      <<"<", "s", "v", "g", ">">> }

HtmlDocs == DocsOf(HtmlFrags, MaxHtmlFrags)

ContentSymbols == {"IMPLICIT_END_TAG", "COMMENT"}

\* A scan by the parsing host: the token is recorded, the host moves on.
HostScan(valid, next) ==
    LET r == scan(Current, doc, pos, valid, 1) IN
    /\ Install(r)
    /\ pos' = IF r.ok THEN r.end ELSE pos
    /\ last' = CallOf(valid, 1, r)
    /\ phase' = IF r.ok THEN next ELSE phase
    /\ trace' = IF r.ok THEN Append(trace, r.sym) ELSE trace
    /\ UNCHANGED << buffer, doc >>

\* The grammar's lexer consumes n characters.
HostLex(n, next) ==
    /\ pos' = pos + n
    /\ phase' = next
    /\ last' = NoCall
    /\ UNCHANGED << scannerVars, buffer, doc, trace >>

ContentRefused == ~scan(Current, doc, pos, ContentSymbols, 1).ok

HostContent == phase = "content" /\ HostScan(ContentSymbols, "content")

HostTagOpen ==
    /\ phase = "content" /\ ContentRefused
    /\ LA(doc, pos) = "<" /\ LA(doc, pos + 1) # "/"
    /\ HostLex(1, "start_name")

HostEndTagOpen ==
    /\ phase = "content" /\ ContentRefused
    /\ LA(doc, pos) = "<" /\ LA(doc, pos + 1) = "/"
    /\ HostLex(2, "end_name")

HostText ==
    /\ phase = "content" /\ ContentRefused
    /\ LA(doc, pos) \notin {"<", EOFC}
    /\ HostLex(1, "content")

HostStartTagName == phase = "start_name" /\ HostScan(StartTagSymbols, "in_tag")

HostEndTagName == phase = "end_name" /\ HostScan(EndTagSymbols, "in_tag")

HostTagClose ==
    /\ phase = "in_tag"
    /\ LA(doc, pos) = ">"
    /\ HostLex(1, "content")

InitDoc ==
    /\ doc \in HtmlDocs
    /\ pos = 0
    /\ tags = Fresh.tags
    /\ verbatim_suffix = Fresh.vbuf
    /\ verbatim_length = Fresh.vlen
    /\ verbatim_capacity = Fresh.vcap
    /\ buffer = NoBuffer
    /\ phase = "content"
    /\ trace = << >>
    /\ last = NoCall

NextDoc ==
    \/ HostContent
    \/ HostTagOpen
    \/ HostEndTagOpen
    \/ HostText
    \/ HostStartTagName
    \/ HostEndTagName
    \/ HostTagClose

SpecDoc == InitDoc /\ [][NextDoc]_vars

(***************************************************************************)
(* Django branches around HTML tags: the Django tags are read by the        *)
(* grammar, the tag names between them by scan.                             *)
(***************************************************************************)
MaxBranchFrags == 3

\* "{%if%}<div>", "{%else%}</div>", "{%endif%}", "<span>" and "<p>"
BranchFrags ==
    { <<"{", "%", "i", "f", "%", "}", "<", "d", "i", "v", ">">>,
      <<"{", "%", "e", "l", "s", "e", "%", "}", "<", "/", "d", "i", "v", ">">>,
      <<"{", "%", "e", "n", "d", "i", "f", "%", "}">>,
      <<"<", "s", "p", "a", "n", ">">>,
      <<"<", "p", ">">> }

BranchDocs == DocsOf(BranchFrags, MaxBranchFrags)

InitBranch ==
    /\ doc \in BranchDocs
    /\ pos = 0
    /\ tags = Fresh.tags
    /\ verbatim_suffix = Fresh.vbuf
    /\ verbatim_length = Fresh.vlen
    /\ verbatim_capacity = Fresh.vcap
    /\ buffer = NoBuffer
    /\ phase = "content"
    /\ trace = << >>
    /\ last = NoCall

SpecBranch == InitBranch /\ [][NextDoc]_vars

(***************************************************************************)
(* Long verbatim suffixes: the host calls scan with VERBATIM_START valid    *)
(* in front of a suffix of up to MaxSuffixLen bytes.                        *)
(***************************************************************************)
MaxSuffixLen == 257

MaxReallocs == 4

\* "%}", " %}", a newline before "%}", and nothing
SuffixTails ==
    { <<"%", "}">>, <<" ", "%", "}">>, <<"\n", "%", "}">>, << >> }

\* A suffix of 250 to MaxSuffixLen letters, then a tail
LongSuffixDocs ==
    { Rep("a", n) \o tail : n \in 250..MaxSuffixLen, tail \in SuffixTails }

ScanLongVerbatimStart ==
    \E mem \in {1, MaxReallocs} : Scan({"VERBATIM_START"}, mem)

InitLongSuffix == InitWith(LongSuffixDocs)

NextLongSuffix == ScanLongVerbatimStart \/ Serialize \/ Create \/ Deserialize

SpecLongSuffix == InitLongSuffix /\ [][NextLongSuffix]_vars

(***************************************************************************)
(* Stacks that outgrow the serialization buffer, and buffers handed back   *)
(* short. A document is an optional verbatim suffix of UINT8_MAX or of     *)
(* MaxSuffixLen letters closed by `%}`, then tag names. The host scans the *)
(* suffix at the start of the document and start-tag names behind it,      *)
(* serializes once, and then hands the bytes back, any number of times,    *)
(* with a length of its choice. What lies behind the length handed over is *)
(* whatever the host's buffer holds: one of JunkBytes.                     *)
(***************************************************************************)
MaxRestoreFrags == 3

RestoreFrags == { Rep("a", MaxNameLen) \o <<" ">>, <<"p", " ">> }

RestoreHeads ==
    { << >>, Rep("a", UINT8_MAX) \o <<"%", "}">>,
      Rep("a", MaxSuffixLen) \o <<"%", "}">> }

RestoreDocs ==
    { head \o body : head \in RestoreHeads,
                     body \in DocsOf(RestoreFrags, MaxRestoreFrags) }

\* A zero byte, and the byte of CUSTOM
JunkBytes == { 0, TypeByte("CUSTOM") }

\* The host's buffer: length bytes of what serialize wrote, junk behind them
HostBuffer(bytes, length, junk) ==
    SubSeq(bytes, 1, length)
        \o Rep(junk, TREE_SITTER_SERIALIZATION_BUFFER_SIZE - length)

\* Nothing, the suffix with a header cut short, all but the last byte, and
\* all that serialize wrote
RestoreLengths(bytes) ==
    LET n == Len(bytes) IN
    { 0, bytes[1] + 4, n - 1, n } \cap 0..n

ScanSuffixAtStart ==
    /\ pos = 0 /\ buffer = NoBuffer
    /\ Scan({"VERBATIM_START"}, MaxReallocs)

ScanNameBeforeSave ==
    /\ buffer = NoBuffer
    /\ ScanStartTagName

SerializeOnce ==
    /\ buffer = NoBuffer
    /\ Serialize

\* tree_sitter_htmldjango_external_scanner_deserialize, handed length bytes
DeserializeLength ==
    /\ buffer # NoBuffer
    /\ \E length \in RestoreLengths(buffer.bytes), mem \in {0, 1},
          junk \in JunkBytes :
          LET buf == HostBuffer(buffer.bytes, length, junk) IN
          /\ Install(Ret(TRUE, NoSymbol, 0, Unmarked,
                         deserialize(Current, buf, length, mem)))
          /\ last' = [NoCall EXCEPT
                         !.op = "deserialize", !.mem = mem,
                         !.sub = IF Current = Fresh THEN "fresh" ELSE "used",
                         !.pre_tags = tags, !.length = length, !.junk = junk,
                         !.read_end = deserialize_read_end(buf, length)]
    /\ UNCHANGED << buffer, doc, pos, phase, trace >>

InitRestore == InitWith(RestoreDocs)

NextRestore ==
    \/ ScanSuffixAtStart
    \/ ScanNameBeforeSave
    \/ SerializeOnce
    \/ Create
    \/ DeserializeLength

SpecRestore == InitRestore /\ [][NextRestore]_vars

(***************************************************************************)
(* Any scan anywhere: the host calls scan at any position of the document  *)
(* with any of the validity vectors the grammar's states offer, and the    *)
(* grammar's own lexer may consume one of its tokens instead: `<`, `/`,     *)
(* `>`, a space, or the `verbatim` keyword. VERBATIM_START is offered       *)
(* behind that keyword only.                                               *)
(***************************************************************************)
MaxAnyFrags == 2

KW_VERBATIM == <<"v", "e", "r", "b", "a", "t", "i", "m">>

\* "<p ", "<br ", "<svg ", "</p ", "/>", "<plaintext ", "<script ",
\* "<!---->", "verbatim a%}" and ":a :"
AnyFrags ==
    { <<"<", "p", " ">>,
      <<"<", "b", "r", " ">>,
      <<"<", "s", "v", "g", " ">>,
      <<"<", "/", "p", " ">>,
      <<"/", ">">>,
      <<"<", "p", "l", "a", "i", "n", "t", "e", "x", "t", " ">>,
      <<"<", "s", "c", "r", "i", "p", "t", " ">>,
      <<"<", "!", "-", "-", "-", "-", ">">>,
      KW_VERBATIM \o <<" ", "a", "%", "}">>,
      <<":", "a", " ", ":">> }

AnyDocs == DocsOf(AnyFrags, MaxAnyFrags)

\* The sets of valid symbols, one for each branch of scan's dispatch, and
\* the set error recovery offers, in which every symbol is valid
ValidityVectors ==
    { {"DJANGO_COMMENT_CONTENT"},
      {"VERBATIM_START"},
      {"VERBATIM_BLOCK_CONTENT"},
      {"VALIDATE_GENERIC_BLOCK", "VALIDATE_GENERIC_SIMPLE"},
      {"FILTER_COLON"},
      StartTagSymbols,
      EndTagSymbols,
      {"RAW_TEXT"},
      {"RCDATA_TEXT"},
      {"PLAINTEXT_TEXT"},
      {"IMPLICIT_END_TAG", "COMMENT"},
      {"SELF_CLOSING_TAG_DELIMITER"},
      {"RAW_TEXT"} \cup EndTagSymbols,
      {"RCDATA_TEXT"} \cup EndTagSymbols,
      StartTagSymbols \cup EndTagSymbols \cup
          { "DJANGO_COMMENT_CONTENT", "VERBATIM_START", "VERBATIM_BLOCK_CONTENT",
            "VALIDATE_GENERIC_BLOCK", "VALIDATE_GENERIC_SIMPLE", "FILTER_COLON",
            "RAW_TEXT", "RCDATA_TEXT", "PLAINTEXT_TEXT", "IMPLICIT_END_TAG",
            "COMMENT", "SELF_CLOSING_TAG_DELIMITER" } }

ScanAny == \E valid \in ValidityVectors \ {{"VERBATIM_START"}} : Scan(valid, 1)

ScanVerbatimStartBehindKeyword ==
    /\ pos >= Len(KW_VERBATIM)
    /\ SubSeq(doc, pos - Len(KW_VERBATIM) + 1, pos) = KW_VERBATIM
    /\ Scan({"VERBATIM_START"}, 1)

InitAny == InitWith(AnyDocs)

\* The grammar's own lexer consumes one of its tokens.
LexToken ==
    \E n \in {1, Len(KW_VERBATIM)} :
        /\ IF n = 1 THEN LA(doc, pos) \in {"<", "/", ">", " "}
                    ELSE /\ pos + n <= Len(doc)
                         /\ SubSeq(doc, pos + 1, pos + n) = KW_VERBATIM
        /\ pos' = pos + n
        /\ last' = NoCall
        /\ UNCHANGED << scannerVars, buffer, doc, phase, trace >>

NextAny == ScanAny \/ ScanVerbatimStartBehindKeyword \/ LexToken

SpecAny == InitAny /\ [][NextAny]_vars

(***************************************************************************)
(* HTML comments: the host calls scan in front of `<!` followed by any     *)
(* bytes of the comment state machine's alphabet.                          *)
(***************************************************************************)
MaxHtmlCommentLen == 7

\* The bytes the state machine tells apart; each one is "anything else" to
\* some state.
HtmlCommentChars == {"-", ">", "!", "<"}

HtmlCommentDocs ==
    { <<"<", "!">> \o w :
        w \in UNION { [1..n -> HtmlCommentChars] : n \in 0..MaxHtmlCommentLen } }

ScanHtmlComment == Scan({"COMMENT"}, 1)

InitHtmlComment == InitWith(HtmlCommentDocs)

NextHtmlComment == ScanHtmlComment

SpecHtmlComment == InitHtmlComment /\ [][NextHtmlComment]_vars

(***************************************************************************)
(* Foreign content: start-tag and end-tag names in both letter cases       *)
(* around an `svg` opened inside a `p`.                                     *)
(***************************************************************************)
MaxForeignFrags == 4

\* The names svg, SVG, a, A and p, each followed by a space
ForeignFrags ==
    { <<"s", "v", "g", " ">>,
      <<"S", "V", "G", " ">>,
      <<"a", " ">>,
      <<"A", " ">>,
      <<"p", " ">> }

ForeignDocs == DocsOf(ForeignFrags, MaxForeignFrags)

InitForeign == InitWith(ForeignDocs)

NextForeign == ScanStartTagName \/ ScanEndTagName

SpecForeign == InitForeign /\ [][NextForeign]_vars

(***************************************************************************)
(* Plaintext: the host reads `<plaintext>` or `<p>` and calls scan with     *)
(* PLAINTEXT_TEXT valid, in the element's content or anywhere else.         *)
(***************************************************************************)
MaxPlainFrags == 3

\* "<", "</plaintext>", "{{", "{%", "{#" and "a"
PlainFrags ==
    { <<"<">>,
      <<"<", "/", "p", "l", "a", "i", "n", "t", "e", "x", "t", ">">>,
      <<"{", "{">>,
      <<"{", "%">>,
      <<"{", "#">>,
      <<"a">> }

\* "plaintext>" or "p>", then the element's content
PlainDocs ==
    { open \o <<">">> \o body :
        open \in { <<"p", "l", "a", "i", "n", "t", "e", "x", "t">>, <<"p">> },
        body \in DocsOf(PlainFrags, MaxPlainFrags) }

ScanPlaintextText == Scan({"PLAINTEXT_TEXT"}, 1)

InitPlain == InitWith(PlainDocs)

NextPlain ==
    \/ ScanOpeningName
    \/ LexTagEnd
    \/ ScanPlaintextText
    \/ LexPastText

SpecPlain == InitPlain /\ [][NextPlain]_vars

(***************************************************************************)
(* Filter colons: the host calls scan with FILTER_COLON valid anywhere in   *)
(* a short text of colons and of the bytes that may follow one.             *)
(***************************************************************************)
MaxFilterLen == 3

FilterChars ==
    { ":", "a", "Z", "5", "_", "\"", "'", "+", "-", ".", " ", "%", "|", "\n", "}" }

FilterDocs == UNION { [1..n -> FilterChars] : n \in 0..MaxFilterLen }

ScanFilterColon == Scan({"FILTER_COLON"}, 1)

InitFilter == InitWith(FilterDocs)

NextFilter == ScanFilterColon \/ Lex

SpecFilter == InitFilter /\ [][NextFilter]_vars

(***************************************************************************)
(* Names: the host calls scan with the start-tag or the end-tag tokens      *)
(* valid anywhere in a short text of name bytes and of bytes that end a     *)
(* name.                                                                    *)
(***************************************************************************)
MaxNameDocLen == 3

NameDocChars == { "a", "Z", "5", ":", "_", "-", " ", ">", "/", "=" }

NameDocs == UNION { [1..n -> NameDocChars] : n \in 0..MaxNameDocLen }

InitNames == InitWith(NameDocs)

NextNames == ScanStartTagName \/ ScanEndTagName \/ Lex

SpecNames == InitNames /\ [][NextNames]_vars

(***************************************************************************)
(* A scanner's life: the host calls scan anywhere with the vectors of the   *)
(* tag scanners, lets the grammar's lexer consume a token, and between      *)
(* calls serializes the scanner and hands the bytes back to it.             *)
(***************************************************************************)
MaxLifeFrags == 2

\* "<p ", "</p ", "<svg ", "/>", "<plaintext " and "<br "
LifeFrags ==
    { <<"<", "p", " ">>,
      <<"<", "/", "p", " ">>,
      <<"<", "s", "v", "g", " ">>,
      <<"/", ">">>,
      <<"<", "p", "l", "a", "i", "n", "t", "e", "x", "t", " ">>,
      <<"<", "b", "r", " ">> }

LifeDocs == DocsOf(LifeFrags, MaxLifeFrags)

LifeVectors ==
    { StartTagSymbols,
      EndTagSymbols,
      {"IMPLICIT_END_TAG", "COMMENT"},
      {"SELF_CLOSING_TAG_DELIMITER"},
      {"PLAINTEXT_TEXT"} }

ScanLife == \E valid \in LifeVectors : Scan(valid, 1)

InitLife == InitWith(LifeDocs)

NextLife == ScanLife \/ LexToken \/ Serialize \/ Deserialize

SpecLife == InitLife /\ [][NextLife]_vars

(***************************************************************************)
(* The loops, one iteration at a time. The cursor is pos and phase is the   *)
(* loop's control state; last holds the cursor and the state the step       *)
(* started from, and the number of steps in a row that left the cursor      *)
(* where it was.                                                            *)
(***************************************************************************)
MaxLoopLen == 6

MaxLoopFrags == 3

MaxIdleSteps == 3

HtmlCommentStates ==
    { "HTML_COMMENT_START", "HTML_COMMENT_START_DASH", "HTML_COMMENT",
      "HTML_COMMENT_LT", "HTML_COMMENT_LT_BANG", "HTML_COMMENT_LT_BANG_DASH",
      "HTML_COMMENT_LT_BANG_DASH_DASH", "HTML_COMMENT_END_DASH",
      "HTML_COMMENT_END", "HTML_COMMENT_END_BANG" }

\* A comment state machine that stays in HTML_COMMENT_LT_BANG_DASH_DASH
comment_step_stuck(inp, i, state) ==
    IF LA(inp, i) = EOFC THEN <<"RETURNED", i>>
    ELSE IF state = "HTML_COMMENT_LT_BANG_DASH_DASH" THEN <<state, i>>
    ELSE IF LA(inp, i) = ">" THEN <<"RETURNED", i + 1>>
    ELSE <<IF LA(inp, i) = "-" THEN "HTML_COMMENT_LT_BANG_DASH_DASH"
                               ELSE "HTML_COMMENT", i + 1>>

\* One pass through the body of `for (;;)` in scan_comment:
\* <<state, cursor>>, the state RETURNED where the pass returns
comment_step(inp, i, state) ==
    LET c == LA(inp, i) IN
    IF c = EOFC THEN <<"RETURNED", i>>
    ELSE CASE state = "HTML_COMMENT_START" ->
                IF c = "-" THEN <<"HTML_COMMENT_START_DASH", i + 1>>
                ELSE IF c = ">" THEN <<"RETURNED", i + 1>>
                ELSE <<"HTML_COMMENT", i + 1>>
           [] state = "HTML_COMMENT_START_DASH" ->
                IF c = "-" THEN <<"HTML_COMMENT_END", i + 1>>
                ELSE IF c = ">" THEN <<"RETURNED", i + 1>>
                ELSE <<"HTML_COMMENT", i + 1>>
           [] state = "HTML_COMMENT" ->
                IF c = "<" THEN <<"HTML_COMMENT_LT", i + 1>>
                ELSE IF c = "-" THEN <<"HTML_COMMENT_END_DASH", i + 1>>
                ELSE <<"HTML_COMMENT", i + 1>>
           [] state = "HTML_COMMENT_LT" ->
                IF c = "!" THEN <<"HTML_COMMENT_LT_BANG", i + 1>>
                ELSE IF c = "<" THEN <<"HTML_COMMENT", i + 1>>
                ELSE <<"HTML_COMMENT", i>>
           [] state = "HTML_COMMENT_LT_BANG" ->
                IF c = "-" THEN <<"HTML_COMMENT_LT_BANG_DASH", i + 1>>
                ELSE <<"HTML_COMMENT", i>>
           [] state = "HTML_COMMENT_LT_BANG_DASH" ->
                IF c = "-" THEN <<"HTML_COMMENT_LT_BANG_DASH_DASH", i + 1>>
                ELSE <<"HTML_COMMENT_END_DASH", i>>
           [] state = "HTML_COMMENT_LT_BANG_DASH_DASH" ->
                <<"HTML_COMMENT_END", i>>
           [] state = "HTML_COMMENT_END_DASH" ->
                IF c = "-" THEN <<"HTML_COMMENT_END", i + 1>>
                ELSE <<"HTML_COMMENT", i + 1>>
           [] state = "HTML_COMMENT_END" ->
                IF c = ">" THEN <<"RETURNED", i + 1>>
                ELSE IF c = "!" THEN <<"HTML_COMMENT_END_BANG", i + 1>>
                ELSE IF c = "-" THEN <<"HTML_COMMENT_END", i + 1>>
                ELSE <<"HTML_COMMENT", i + 1>>
           [] state = "HTML_COMMENT_END_BANG" ->
                IF c = "-" THEN <<"HTML_COMMENT_END_DASH", i + 1>>
                ELSE IF c = ">" THEN <<"RETURNED", i + 1>>
                ELSE <<"HTML_COMMENT", i + 1>>

\* One pass through the body of `for (;;)` in scan_verbatim_content
verbatim_content_step(S, inp, i) ==
    IF LA(inp, i) = EOFC THEN <<"RETURNED", i>>
    ELSE IF LA(inp, i) = "{"
    THEN LET a == verbatim_end_attempt(S, inp, i) IN
         IF a[1] THEN <<"RETURNED", a[2]>>
         ELSE <<"VERBATIM_CONTENT", Adv(inp, a[2])>>
    ELSE <<"VERBATIM_CONTENT", Adv(inp, i)>>

\* One test and pass of `while (lexer->lookahead != 0)` in
\* scan_validate_generic_tag
validate_lookahead_step(inp, i, end_tag) ==
    IF LA(inp, i) = EOFC THEN <<"RETURNED", i>>
    ELSE IF LA(inp, i) = "{"
    THEN LET a == generic_end_attempt(inp, i, end_tag) IN
         IF a[1] THEN <<"RETURNED", a[2]>>
         ELSE <<"VALIDATE_LOOKAHEAD", a[2]>>
    ELSE <<"VALIDATE_LOOKAHEAD", i + 1>>

\* Texts of the bytes the comment state machine tells apart
CommentLoopDocs == UNION { [1..n -> HtmlCommentChars] : n \in 0..MaxLoopLen }

END_FOO == <<"e", "n", "d", "f", "o", "o">>

\* "{", "{%", "endverbatim", "endfoo", " ", "%}", "%" and "x"
DjangoLoopFrags ==
    { <<"{">>, <<"{", "%">>, KW_ENDVERBATIM, END_FOO,
      <<" ">>, <<"%", "}">>, <<"%">>, <<"x">> }

DjangoLoopDocs == DocsOf(DjangoLoopFrags, MaxLoopFrags)

StepTo(r) ==
    /\ phase' = r[1]
    /\ pos' = r[2]
    /\ last' = [NoCall EXCEPT
                   !.op = "step", !.sub = phase, !.start = pos,
                   !.length = IF r[2] > pos \/ r[1] = "RETURNED" THEN 0
                              ELSE IF last.length < MaxIdleSteps
                              THEN last.length + 1 ELSE MaxIdleSteps]
    /\ UNCHANGED << scannerVars, buffer, doc, trace >>

CommentStep ==
    /\ phase \in HtmlCommentStates
    /\ StepTo(comment_step(doc, pos, phase))

VerbatimContentStep ==
    /\ phase = "VERBATIM_CONTENT"
    /\ StepTo(verbatim_content_step(Current, doc, pos))

ValidateLookaheadStep ==
    /\ phase = "VALIDATE_LOOKAHEAD"
    /\ StepTo(validate_lookahead_step(doc, pos, END_FOO))

InitLoops ==
    /\ \/ phase = "HTML_COMMENT_START" /\ doc \in CommentLoopDocs
       \/ phase \in {"VERBATIM_CONTENT", "VALIDATE_LOOKAHEAD"} /\ doc \in DjangoLoopDocs
    /\ pos = 0
    /\ tags = Fresh.tags
    /\ verbatim_suffix = Fresh.vbuf
    /\ verbatim_length = Fresh.vlen
    /\ verbatim_capacity = Fresh.vcap
    /\ buffer = NoBuffer
    /\ trace = << >>
    /\ last = NoCall

NextLoops == CommentStep \/ VerbatimContentStep \/ ValidateLookaheadStep

SpecLoops == InitLoops /\ [][NextLoops]_vars

\* A scan call runs on until it returns: no loop is left waiting.
SpecLoopsFair == SpecLoops /\ WF_vars(NextLoops)

(***************************************************************************)
(* Closing tags over open elements: the host of SpecDoc parses documents of *)
(* start tags and of end tags that name the top, a deeper entry or none.    *)
(***************************************************************************)
MaxCloseFrags == 4

\* "<div>", "<p>", "<svg>", "<a>b", "</div>", "</svg>" and "</x>"
CloseFrags ==
    { <<"<", "d", "i", "v", ">">>,
      <<"<", "p", ">">>,
      <<"<", "s", "v", "g", ">">>,
      <<"<", "a", ">", "b">>,
      <<"<", "/", "d", "i", "v", ">">>,
      <<"<", "/", "s", "v", "g", ">">>,
      <<"<", "/", "x", ">">> }

CloseDocs == DocsOf(CloseFrags, MaxCloseFrags)

InitClose ==
    /\ doc \in CloseDocs
    /\ pos = 0
    /\ tags = Fresh.tags
    /\ verbatim_suffix = Fresh.vbuf
    /\ verbatim_length = Fresh.vlen
    /\ verbatim_capacity = Fresh.vcap
    /\ buffer = NoBuffer
    /\ phase = "content"
    /\ trace = << >>
    /\ last = NoCall

SpecClose == InitClose /\ [][NextDoc]_vars

(***************************************************************************)
(* Properties                                                              *)
(***************************************************************************)
\* The word w stands in inp at cursor k.
IsAt(inp, k, w) == \A j \in 1..Len(w) : LA(inp, k + j - 1) = w[j]

\* Every character of inp between the cursors a and b is in set.
AllIn(inp, a, b, set) == \A j \in (a + 1)..b : inp[j] \in set

HSpace == {" ", "\t", "\r"}

DSpace == {" ", "\t", "\r", "\n"}

Least(set) == CHOOSE k \in set : \A m \in set : k <= m

\* `{%`, horizontal whitespace, `endverbatim`, the suffix s, horizontal
\* whitespace, `%}` stands in inp from cursor k to cursor e.
VerbatimCloseAt(inp, k, s, e) ==
    /\ IsAt(inp, k, <<"{", "%">>)
    /\ \E a \in (k + 2)..Len(inp) :
          /\ AllIn(inp, k + 2, a, HSpace)
          /\ IsAt(inp, a, KW_ENDVERBATIM \o s)
          /\ LET c == a + Len(KW_ENDVERBATIM) + Len(s) IN
             \E b \in c..Len(inp) :
                /\ AllIn(inp, c, b, HSpace)
                /\ IsAt(inp, b, <<"%", "}">>)
                /\ e = b + 2

VerbatimCloses(inp, from, s) ==
    { k \in from..Len(inp) : \E e \in k..Len(inp) : VerbatimCloseAt(inp, k, s, e) }

\* C3: whenever scan returns false, the element stack and the verbatim
\* suffix (its recorded length and its bytes) are what they were before the
\* call.
C3_RefusedScanLeavesState ==
    (last.op = "scan" /\ ~last.ok) =>
        /\ tags = last.pre_tags
        /\ SuffixOf(Current) = last.pre_suffix

\* C4: with the suffix s stored, the verbatim-content scanner accepts
\* VERBATIM_BLOCK_CONTENT ending directly after the first closing tag
\* `{% endverbatim<s> %}` of the remaining input and clears the suffix, and
\* it refuses only when the remaining input holds no such closing tag.
C4_VerbatimContentFindsFirstClose ==
    (last.op = "scan" /\ last.sub = "verbatim_content") =>
        LET occ == VerbatimCloses(doc, last.start, last.pre_suffix) IN
        IF occ = {}
        THEN ~last.ok
        ELSE /\ last.ok
             /\ last.sym = "VERBATIM_BLOCK_CONTENT"
             /\ VerbatimCloseAt(doc, Least(occ), last.pre_suffix, last.end)
             /\ verbatim_length = 0

\* `{%`, whitespace, `endcomment`, whitespace, `%}` stands in inp at cursor k.
CommentCloseAt(inp, k) ==
    /\ IsAt(inp, k, <<"{", "%">>)
    /\ \E a \in (k + 2)..Len(inp) :
          /\ AllIn(inp, k + 2, a, DSpace)
          /\ IsAt(inp, a, KW_ENDCOMMENT)
          /\ \E b \in (a + Len(KW_ENDCOMMENT))..Len(inp) :
                /\ AllIn(inp, a + Len(KW_ENDCOMMENT), b, DSpace)
                /\ IsAt(inp, b, <<"%", "}">>)

CommentCloses(inp, from) == { k \in from..Len(inp) : CommentCloseAt(inp, k) }

\* C6: the Django block-comment scanner accepts DJANGO_COMMENT_CONTENT
\* ending immediately before the `{` of the first `{% endcomment %}` of the
\* remaining input, and refuses when the input ends without one.
C6_CommentContentStopsBeforeClose ==
    (last.op = "scan" /\ last.sub = "django_comment_content") =>
        LET occ == CommentCloses(doc, last.start) IN
        IF occ = {}
        THEN ~last.ok
        ELSE /\ last.ok
             /\ last.sym = "DJANGO_COMMENT_CONTENT"
             /\ last.end = Least(occ)

\* C6's case: an accepted comment whose content holds an earlier `{%` that
\* opens no endcomment.
C6_Witness ==
    /\ last.op = "scan" /\ last.sub = "django_comment_content" /\ last.ok
    /\ \E k \in last.start..(last.end - 1) : IsAt(doc, k, <<"{", "%">>)

IdentChars == LowerSet \cup UpperSet \cup DigitSet \cup {"_"}

\* The identifier at cursor k: the longest run of identifier characters
\* that starts with a letter or `_`, cut at TAG_NAME_MAX characters.
IdentifierAt(inp, k) ==
    IF LA(inp, k) \notin (LowerSet \cup UpperSet \cup {"_"}) THEN << >>
    ELSE LET n == Least({ m \in 1..(Len(inp) - k) :
                             m = TAG_NAME_MAX \/ LA(inp, k + m) \notin IdentChars })
         IN  SubSeq(inp, k + 1, k + n)

\* `{%`, whitespace, `end` + id, then whitespace or `%`, somewhere in inp at
\* or after cursor from
GenericEndAhead(inp, from, id) ==
    \E k \in from..Len(inp) :
        /\ IsAt(inp, k, <<"{", "%">>)
        /\ \E a \in (k + 2)..Len(inp) :
              /\ AllIn(inp, k + 2, a, DSpace)
              /\ IsAt(inp, a, KW_END \o id)
              /\ LA(inp, a + 3 + Len(id)) \in DSpace \cup {"%"}

\* C7: the validator refuses an empty, built-in or `end...` identifier;
\* otherwise it emits VALIDATE_GENERIC_BLOCK exactly when that token is
\* valid and `{% end<identifier>` followed by whitespace or `%` lies ahead,
\* otherwise VALIDATE_GENERIC_SIMPLE when that is valid, otherwise it refuses.
C7_ValidatorOutcome ==
    (last.op = "scan" /\ last.sub = "validate_generic_tag") =>
        LET id == IdentifierAt(doc, last.start) IN
        IF \/ id = << >>
           \/ id \in BUILTIN_DJANGO_TAGS
           \/ (Len(id) >= 3 /\ SubSeq(id, 1, 3) = KW_END)
        THEN ~last.ok
        ELSE IF /\ "VALIDATE_GENERIC_BLOCK" \in last.valid
                /\ GenericEndAhead(doc, last.start + Len(id), id)
        THEN last.ok /\ last.sym = "VALIDATE_GENERIC_BLOCK"
        ELSE IF "VALIDATE_GENERIC_SIMPLE" \in last.valid
        THEN last.ok /\ last.sym = "VALIDATE_GENERIC_SIMPLE"
        ELSE ~last.ok

\* C7's case: both tokens valid, a lone `{` before the end tag, and the
\* block accepted.
C7_Witness ==
    /\ last.op = "scan" /\ last.sub = "validate_generic_tag"
    /\ last.valid = {"VALIDATE_GENERIC_BLOCK", "VALIDATE_GENERIC_SIMPLE"}
    /\ last.ok /\ last.sym = "VALIDATE_GENERIC_BLOCK"
    /\ \E k \in last.start..Len(doc) : IsAt(doc, k, <<"{", "{", "%">>)

TagNameChars == LowerSet \cup UpperSet \cup DigitSet \cup {"-", ":"}

\* The cursor behind the whitespace at cursor k
BehindSpace(inp, k) ==
    Least({ m \in k..Len(inp) : LA(inp, m) \notin {" ", "\t", "\n", "\r", "\f"} })

\* The longest run of tag-name characters at cursor k
NameAt(inp, k) ==
    LET e == Least({ m \in k..Len(inp) : LA(inp, m) \notin TagNameChars })
    IN  SubSeq(inp, k + 1, e)

Upper(name) == [j \in 1..Len(name) |-> towupper(name[j])]

HoldsForeign(stack) == \E j \in 1..Len(stack) : stack[j].type \in {"SVG", "MATH"}

Top(stack) == stack[Len(stack)]

Popped(stack) == SubSeq(stack, 1, Len(stack) - 1)

\* The tag an end-tag name stands for: original case under a CUSTOM top in
\* foreign content, folded to upper case and looked up otherwise
EndCandidate(stack, raw) ==
    IF HoldsForeign(stack) /\ Top(stack).type \notin {"SVG", "MATH"}
    THEN Tag("CUSTOM", raw)
    ELSE tag_for_name(Upper(raw))

\* C1: the end-tag-name scanner pops the top and emits END_TAG_NAME when the
\* candidate equals the top; emits END_TAG_NAME and keeps the stack when it
\* equals a deeper entry; emits ERRONEOUS_END_TAG_NAME and keeps the stack
\* otherwise.
C1_EndTagNameOutcome ==
    (last.op = "scan" /\ last.sub = "end_tag_name") =>
        LET stack == last.pre_tags
            raw   == NameAt(doc, BehindSpace(doc, last.start))
            cand  == EndCandidate(stack, raw)
        IN
        IF raw = << >> THEN ~last.ok /\ tags = stack
        ELSE
        /\ last.ok
        /\ IF stack # << >> /\ tag_eq(Top(stack), cand)
           THEN last.sym = "END_TAG_NAME" /\ tags = Popped(stack)
           ELSE IF \E j \in 1..Len(stack) : tag_eq(stack[j], cand)
           THEN last.sym = "END_TAG_NAME" /\ tags = stack
           ELSE last.sym = "ERRONEOUS_END_TAG_NAME" /\ tags = stack

\* C1's case: an end tag that names an entry below the top, the stack kept.
C1_Witness ==
    /\ last.op = "scan" /\ last.sub = "end_tag_name" /\ last.ok
    /\ last.sym = "END_TAG_NAME"
    /\ Len(last.pre_tags) >= 2
    /\ tags = last.pre_tags

\* C8: the start-tag-name scanner, for a non-empty name: in foreign content
\* it pushes CUSTOM with the original-case name and emits
\* FOREIGN_START_TAG_NAME; outside, a void tag emits VOID_START_TAG_NAME and
\* pushes nothing, and every other tag is pushed with the token of its kind.
C8_StartTagNameOutcome ==
    (last.op = "scan" /\ last.sub = "start_tag_name") =>
        LET stack == last.pre_tags
            raw   == NameAt(doc, BehindSpace(doc, last.start))
            tag   == tag_for_name(Upper(raw))
        IN
        IF raw = << >> THEN ~last.ok /\ tags = stack
        ELSE
        /\ last.ok
        /\ IF HoldsForeign(stack)
           THEN /\ last.sym = "FOREIGN_START_TAG_NAME"
                /\ tags = Append(stack, Tag("CUSTOM", raw))
           ELSE IF tag.type \in VoidTypes
           THEN last.sym = "VOID_START_TAG_NAME" /\ tags = stack
           ELSE /\ tags = Append(stack, tag)
                /\ last.sym =
                     CASE tag.type = "SCRIPT"    -> "SCRIPT_START_TAG_NAME"
                       [] tag.type = "STYLE"     -> "STYLE_START_TAG_NAME"
                       [] tag.type = "TITLE"     -> "TITLE_START_TAG_NAME"
                       [] tag.type = "TEXTAREA"  -> "TEXTAREA_START_TAG_NAME"
                       [] tag.type = "PLAINTEXT" -> "PLAINTEXT_START_TAG_NAME"
                       [] tag.type = "SVG"       -> "FOREIGN_START_TAG_NAME"
                       [] tag.type = "MATH"      -> "FOREIGN_START_TAG_NAME"
                       [] OTHER                  -> "HTML_START_TAG_NAME"

\* C8's case: a void name under a CUSTOM top in foreign content, pushed as
\* CUSTOM with its original case.
C8_Witness ==
    /\ last.op = "scan" /\ last.sub = "start_tag_name" /\ last.ok
    /\ last.sym = "FOREIGN_START_TAG_NAME"
    /\ Len(last.pre_tags) >= 2
    /\ Top(last.pre_tags).type = "CUSTOM"
    /\ tags = Append(last.pre_tags, Tag("CUSTOM", <<"b", "r">>))

\* The end-tag sentinel of the element kind, in upper case
SentinelOf(type) ==
    CASE type = "SCRIPT"   -> END_SCRIPT
      [] type = "STYLE"    -> END_STYLE
      [] type = "TITLE"    -> END_TITLE
      [] type = "TEXTAREA" -> END_TEXTAREA

\* w stands in inp at cursor k, letter case aside
IsAtFolded(inp, k, w) == \A j \in 1..Len(w) : towupper(LA(inp, k + j - 1)) = w[j]

DjangoOpenerAt(inp, k) ==
    LA(inp, k) = "{" /\ LA(inp, k + 1) \in {"{", "%", "#"}

\* The first cursor at or after from with the sentinel, a Django opener or
\* the end of input
TextStop(inp, from, type) ==
    Least({ k \in from..Len(inp) :
              \/ k = Len(inp)
              \/ IsAtFolded(inp, k, SentinelOf(type))
              \/ DjangoOpenerAt(inp, k) })

\* C5: with SCRIPT or STYLE on top (TITLE or TEXTAREA for RCDATA), the token
\* of the raw-text (RCDATA-text) scanner ends at the first sentinel of the
\* top tag, Django opener or end of input.
C5_TextEndsAtFirstStop ==
    ( /\ last.op = "scan" /\ last.ok
      /\ last.pre_tags # << >>
      /\ \/ last.sub = "raw_text" /\ Top(last.pre_tags).type \in {"SCRIPT", "STYLE"}
         \/ last.sub = "rcdata_text"
              /\ Top(last.pre_tags).type \in {"TITLE", "TEXTAREA"} ) =>
        last.end = TextStop(doc, last.start, Top(last.pre_tags).type)

\* The size of the full encoding of a state: the suffix length byte, the
\* suffix, the two counts, then one byte a tag, and for a CUSTOM tag the
\* length byte and the name
EncodedSize(stack, suffix) ==
    LET RECURSIVE Sum(_)
        Sum(k) == IF k = 0 THEN 0
                  ELSE Sum(k - 1) + (IF stack[k].type = "CUSTOM"
                                     THEN 2 + Len(stack[k].name) ELSE 1)
    IN  1 + Len(suffix) + 4 + Sum(Len(stack))

\* C2: for a state whose encoding is no larger than the buffer, serialize
\* followed by deserialize into a fresh scanner yields the same element
\* stack and the same verbatim suffix.
C2_RoundTrip ==
    ( /\ last.op = "deserialize" /\ last.sub = "fresh" /\ last.mem = 1
      /\ EncodedSize(buffer.tags, buffer.suffix)
            <= TREE_SITTER_SERIALIZATION_BUFFER_SIZE ) =>
        /\ tags = buffer.tags
        /\ SuffixOf(Current) = buffer.suffix

\* The document <p>a<p>b</p>
DocPaPbP ==
    <<"<", "p", ">", "a", "<", "p", ">", "b", "<", "/", "p", ">">>

TokensPaPbP ==
    <<"HTML_START_TAG_NAME", "IMPLICIT_END_TAG", "HTML_START_TAG_NAME",
      "END_TAG_NAME">>

IsPrefix(a, b) == Len(a) <= Len(b) /\ SubSeq(b, 1, Len(a)) = a

\* The implicit-end scanner ran at a `<name` whose tag the top of a
\* non-foreign stack cannot contain; lt is the cursor of the `<`.
ImplicitEndCase(lt) ==
    /\ last.op = "scan" /\ last.sub = "implicit_end_tag"
    /\ last.pre_tags # << >>
    /\ ~HoldsForeign(last.pre_tags)
    /\ lt = BehindSpace(doc, last.start)
    /\ LA(doc, lt) = "<"
    /\ NameAt(doc, lt + 1) # << >>
    /\ ~tag_can_contain(Top(last.pre_tags),
                        tag_for_name(Upper(NameAt(doc, lt + 1))))

\* C9: at `<name` where the top of a non-foreign stack cannot contain the
\* tag named, scan pops exactly the top and emits a zero-width
\* IMPLICIT_END_TAG ending before the `<`, where the host stays; for
\* <p>a<p>b</p> the tokens are HTML_START_TAG_NAME, IMPLICIT_END_TAG,
\* HTML_START_TAG_NAME, END_TAG_NAME and the stack ends empty.
C9_ImplicitEndBeforeChild ==
    /\ \A lt \in 0..Len(doc) :
          ImplicitEndCase(lt) =>
              /\ last.ok /\ last.sym = "IMPLICIT_END_TAG"
              /\ tags = Popped(last.pre_tags)
              /\ last.end = lt
              /\ pos = lt
    /\ doc = DocPaPbP =>
          /\ IsPrefix(trace, TokensPaPbP)
          /\ pos = Len(doc) => (trace = TokensPaPbP /\ tags = << >>)

\* C9's case: <p>a<p>b</p> read to its end, the second <p having closed the
\* first.
C9_Witness ==
    /\ doc = DocPaPbP
    /\ pos = Len(doc)
    /\ trace = TokensPaPbP
    /\ tags = << >>

\* The implicit-end scanner ran with the cursor at the end of input over a
\* non-empty stack.
ImplicitEndAtEof ==
    /\ last.op = "scan" /\ last.sub = "implicit_end_tag"
    /\ last.pre_tags # << >>
    /\ AtEof(doc, BehindSpace(doc, last.start))

\* C10 as stated: at the end of input over any non-empty stack, stacks that
\* hold SVG or MATH included, each scan pops one element and emits
\* IMPLICIT_END_TAG.
C10_EofDrainsEveryStack ==
    ImplicitEndAtEof =>
        /\ last.ok /\ last.sym = "IMPLICIT_END_TAG"
        /\ tags = Popped(last.pre_tags)

\* C10, amended: at the end of input over a non-empty stack that holds no
\* SVG or MATH element, each scan that reaches the implicit-end scanner pops
\* one element and emits IMPLICIT_END_TAG.
C10_EofDrainsHtmlStack ==
    (ImplicitEndAtEof /\ ~HoldsForeign(last.pre_tags)) =>
        /\ last.ok /\ last.sym = "IMPLICIT_END_TAG"
        /\ tags = Popped(last.pre_tags)

\* C10's case: a stack of depth two drained at the end of input by two
\* calls.
C10_Witness ==
    /\ ImplicitEndAtEof /\ last.ok
    /\ Len(last.pre_tags) = 1
    /\ tags = << >>
    /\ Len(trace) >= 2
    /\ trace[Len(trace)] = "IMPLICIT_END_TAG"
    /\ trace[Len(trace) - 1] = "IMPLICIT_END_TAG"

\* The document {%if%}<div>{%else%}</div>{%endif%}
DocIfElseDiv ==
    <<"{", "%", "i", "f", "%", "}", "<", "d", "i", "v", ">",
      "{", "%", "e", "l", "s", "e", "%", "}", "<", "/", "d", "i", "v", ">",
      "{", "%", "e", "n", "d", "i", "f", "%", "}">>

DIV == Tag("DIV", << >>)

\* C11 as stated: in {%if%}<div>{%else%}</div>{%endif%} the end-tag scan
\* emits END_TAG_NAME without popping and the div entry stays on the stack.
C11_ElseEndTagKeepsDiv ==
    (doc = DocIfElseDiv /\ last.op = "scan" /\ last.sub = "end_tag_name") =>
        /\ last.ok /\ last.sym = "END_TAG_NAME"
        /\ tags = last.pre_tags
        /\ tags = <<DIV>>

\* C11, amended: in {%if%}<div>{%else%}</div>{%endif%} the start-tag scan
\* pushes div, the end-tag scan finds div on top, pops it and emits
\* END_TAG_NAME, and the stack is empty from then on; no IMPLICIT_END_TAG
\* follows.
C11_ElseEndTagPopsDiv ==
    doc = DocIfElseDiv =>
        /\ IsPrefix(trace, <<"HTML_START_TAG_NAME", "END_TAG_NAME">>)
        /\ tags = (IF Len(trace) = 1 THEN <<DIV>> ELSE << >>)
        /\ (last.op = "scan" /\ last.sub = "end_tag_name") =>
              /\ last.ok /\ last.sym = "END_TAG_NAME"
              /\ last.pre_tags = <<DIV>>
              /\ tags = << >>
        /\ pos = Len(doc) => trace = <<"HTML_START_TAG_NAME", "END_TAG_NAME">>

\* C11's case: the else branch's end tag has been scanned.
C11_Witness ==
    /\ doc = DocIfElseDiv
    /\ last.op = "scan" /\ last.sub = "end_tag_name" /\ last.ok
    /\ last.pre_tags = <<DIV>>
    /\ tags = << >>

\* The cursors from `from` on at which `%}` stands
TagEnds(inp, from) == { k \in from..Len(inp) : IsAt(inp, k, <<"%", "}">>) }

\* w without its trailing horizontal whitespace
StripTrailing(w) ==
    LET keep == { j \in 1..Len(w) : w[j] \notin HSpace } IN
    IF keep = {} THEN << >>
    ELSE SubSeq(w, 1, CHOOSE j \in keep : \A m \in keep : m <= j)

\* The verbatim-start scanner ran with memory for its buffer.
VerbatimStartRan ==
    last.op = "scan" /\ last.sub = "verbatim_start" /\ last.mem = 1

\* The bytes between the cursor and the first `%}` hold no newline.
SuffixOnOneLine(inp, from) ==
    /\ TagEnds(inp, from) # {}
    /\ \A j \in (from + 1)..Least(TagEnds(inp, from)) : inp[j] # "\n"

FOO == <<"f", "o", "o">>

\* C12 as stated: for ` foo %}` behind the verbatim keyword the recorded
\* suffix is `foo`.
C12_SuffixIsFoo ==
    ( /\ VerbatimStartRan /\ last.start = 0
      /\ IsAt(doc, 0, <<" ">> \o FOO \o <<" ", "%", "}">>) ) =>
        last.ok /\ SuffixOf(Current) = FOO

\* C12, amended: the verbatim-start scanner records the bytes between the
\* cursor and the first `%}`, leading whitespace included and trailing
\* horizontal whitespace stripped, a `%` without `}` being content; it ends
\* the token behind the `%}` and emits VERBATIM_START; it fails on a newline
\* or end of input before `%}`. For ` foo %}` the suffix is ` foo`.
C12_SuffixIsBytesBeforeTagEnd ==
    VerbatimStartRan =>
        /\ IF SuffixOnOneLine(doc, last.start)
           THEN LET e == Least(TagEnds(doc, last.start)) IN
                /\ last.ok /\ last.sym = "VERBATIM_START"
                /\ last.end = e + 2
                /\ SuffixOf(Current) =
                     StripTrailing(SubSeq(doc, last.start + 1, e))
           ELSE ~last.ok
        /\ ( /\ last.start = 0
             /\ IsAt(doc, 0, <<" ">> \o FOO \o <<" ", "%", "}">>) ) =>
               SuffixOf(Current) = <<" ">> \o FOO

\* C12's case: ` foo %}` scanned behind the keyword.
C12_Witness ==
    /\ VerbatimStartRan /\ last.ok /\ last.start = 0
    /\ IsAt(doc, 0, <<" ">> \o FOO \o <<" ", "%", "}">>)
    /\ SuffixOf(Current) = <<" ">> \o FOO
    /\ last.end = 7


(***************************************************************************)
(* C13                                                                     *)
(***************************************************************************)
\* The stripped suffix in front of the first `%}` from the cursor on
StrippedSuffixAhead(inp, from) ==
    StripTrailing(SubSeq(inp, from + 1, Least(TagEnds(inp, from))))

\* C13: a verbatim suffix of 255 bytes is the longest the start scanner
\* accepts: when the stripped suffix in front of `%}` is longer, the
\* verbatim-start scan returns false, and the recorded suffix length never
\* exceeds 255.
C13_LongSuffixRejected ==
    /\ verbatim_length <= UINT8_MAX
    /\ ( /\ last.op = "scan" /\ last.sub = "verbatim_start"
         /\ SuffixOnOneLine(doc, last.start)
         /\ Len(StrippedSuffixAhead(doc, last.start)) > UINT8_MAX ) => ~last.ok

(***************************************************************************)
(* C14                                                                     *)
(***************************************************************************)
\* C14: for every scanner state, serialize writes no byte at or beyond
\* offset TREE_SITTER_SERIALIZATION_BUFFER_SIZE and returns a size no
\* greater than that capacity (the bytes written are those at the offsets
\* below the size returned).
C14_SerializeStaysInBuffer ==
    buffer # NoBuffer =>
        Len(buffer.bytes) <= TREE_SITTER_SERIALIZATION_BUFFER_SIZE

\* C14's case: serialize ran on a state whose full encoding is larger than
\* the buffer.
C14_Witness ==
    /\ last.op = "serialize"
    /\ EncodedSize(buffer.tags, buffer.suffix)
          > TREE_SITTER_SERIALIZATION_BUFFER_SIZE
    /\ Len(buffer.bytes) <= TREE_SITTER_SERIALIZATION_BUFFER_SIZE

(***************************************************************************)
(* C15                                                                     *)
(***************************************************************************)
\* The two counts in the header serialize wrote
SerializedTagCount(bytes) == U16Of(bytes[bytes[1] + 2], bytes[bytes[1] + 3])

LogicalTagCount(bytes) == U16Of(bytes[bytes[1] + 4], bytes[bytes[1] + 5])

\* The state serialize ran on does not fit in the buffer.
StackOverflows ==
    /\ buffer # NoBuffer
    /\ EncodedSize(buffer.tags, buffer.suffix)
          > TREE_SITTER_SERIALIZATION_BUFFER_SIZE

\* C15: when the stack does not fit in the serialization buffer, serialize
\* writes serialized_tag_count <= logical_tag_count = stack depth, and
\* deserialize of that output restores a stack of the original depth whose
\* first serialized_tag_count entries equal the original entries and whose
\* remaining entries are empty placeholders.
C15_OverflowKeepsPrefixAndDepth ==
    StackOverflows =>
        LET n == SerializedTagCount(buffer.bytes) IN
        /\ n <= LogicalTagCount(buffer.bytes)
        /\ LogicalTagCount(buffer.bytes) = Len(buffer.tags)
        /\ ( /\ last.op = "deserialize" /\ last.mem = 1
             /\ last.length = Len(buffer.bytes) ) =>
               /\ Len(tags) = Len(buffer.tags)
               /\ \A k \in 1..Len(tags) :
                     tags[k] = IF k <= n THEN buffer.tags[k] ELSE tag_new

(***************************************************************************)
(* C16                                                                     *)
(***************************************************************************)
\* What the deserialize call just made leaves in a freshly created scanner,
\* handed the same buffer and length, mem realloc calls succeeding
FromFresh(mem) ==
    deserialize(Fresh, HostBuffer(buffer.bytes, last.length, last.junk),
                last.length, mem)

\* C16 as stated: the stack and the suffix after deserialize depend only on
\* the buffer and the length passed, never on the state held before the
\* call (they are what a fresh scanner would hold after the same call), and
\* deserialize with length 0 leaves an empty stack and suffix length 0.
C16_DeserializeReplacesState ==
    last.op = "deserialize" =>
        /\ tags = FromFresh(last.mem).tags
        /\ SuffixOf(Current) = SuffixOf(FromFresh(last.mem))
        /\ last.length = 0 => (tags = << >> /\ verbatim_length = 0)

\* C16, amended: the stack after deserialize depends only on the buffer and
\* the length passed, and so does the suffix when the suffix buffer can be
\* allocated; when realloc fails the suffix is the buffer's if the capacity
\* held before the call suffices and empty otherwise. With length 0 the
\* stack is empty and the suffix length 0.
C16_DeserializeReplacesUnlessNoMemory ==
    last.op = "deserialize" =>
        /\ tags = FromFresh(1).tags
        /\ last.mem = 1 => SuffixOf(Current) = SuffixOf(FromFresh(1))
        /\ SuffixOf(Current) \in { SuffixOf(FromFresh(1)), << >> }
        /\ last.length = 0 => (tags = << >> /\ verbatim_length = 0)

\* C16's case: deserialize ran on a scanner that held another, non-empty
\* stack and restored a stack and a suffix from the buffer.
C16_Witness ==
    /\ last.op = "deserialize" /\ last.mem = 1
    /\ last.pre_tags # << >> /\ last.pre_tags # tags
    /\ tags # << >> /\ verbatim_length > 0

(***************************************************************************)
(* C17                                                                     *)
(***************************************************************************)
\* Every entry of the stack is a tag of a declared type; only a CUSTOM tag
\* has a name.
ValidStack(tg) ==
    \A k \in 1..Len(tg) :
        /\ tg[k].type \in Range(TagTypeOrder)
        /\ tg[k].type # "CUSTOM" => tg[k].name = << >>

\* C17: on a truncated buffer (a length shorter than what serialize wrote)
\* deserialize reads no byte at an offset >= length and leaves a valid
\* stack.
C17_TruncatedBufferReadInBounds ==
    (last.op = "deserialize" /\ last.length < Len(buffer.bytes)) =>
        /\ last.read_end <= last.length
        /\ ValidStack(tags)

(***************************************************************************)
(* C18                                                                     *)
(***************************************************************************)
\* A scan call returned true.
ScanSucceeded == last.op = "scan" /\ last.ok

\* C18: after any successful scan call the element-stack depth differs from
\* its depth before the call by -1, 0 or +1.
C18_DepthChangesByAtMostOne ==
    ScanSucceeded => Len(tags) - Len(last.pre_tags) \in {-1, 0, 1}

\* C18's case: a successful scan took a tag off a stack of two or more,
\* which an earlier scan had grown.
C18_Witness ==
    /\ ScanSucceeded
    /\ Len(last.pre_tags) >= 2
    /\ Len(tags) = Len(last.pre_tags) - 1

(***************************************************************************)
(* C19                                                                     *)
(***************************************************************************)
GrowingSymbols == StartTagSymbols \ {"VOID_START_TAG_NAME"}

ShrinkingSymbols == {"END_TAG_NAME", "IMPLICIT_END_TAG", "PLAINTEXT_TEXT"}

\* C19: a successful scan grows the stack (by one tag on top) only when it
\* emits a start-tag-name token other than VOID_START_TAG_NAME, shrinks it
\* (by its top tag) only when it emits END_TAG_NAME, IMPLICIT_END_TAG,
\* PLAINTEXT_TEXT, or SELF_CLOSING_TAG_DELIMITER in foreign content, and
\* with every other token leaves the stack as it was.
C19_StackEffectOfTokens ==
    ScanSucceeded =>
        LET pre == last.pre_tags IN
        /\ Len(tags) > Len(pre) =>
              /\ last.sym \in GrowingSymbols
              /\ Popped(tags) = pre
        /\ Len(tags) < Len(pre) =>
              /\ \/ last.sym \in ShrinkingSymbols
                 \/ (last.sym = "SELF_CLOSING_TAG_DELIMITER" /\ HoldsForeign(pre))
              /\ tags = Popped(pre)
        /\ Len(tags) = Len(pre) => tags = pre
        /\ ( /\ last.sym \notin GrowingSymbols \cup ShrinkingSymbols
             /\ ~(last.sym = "SELF_CLOSING_TAG_DELIMITER" /\ HoldsForeign(pre)) ) =>
               tags = pre

\* C19's case: `/>` scanned outside foreign content, on a stack that holds
\* a tag, leaves the stack as it was.
C19_Witness ==
    /\ ScanSucceeded
    /\ last.sym = "SELF_CLOSING_TAG_DELIMITER"
    /\ last.pre_tags # << >> /\ ~HoldsForeign(last.pre_tags)
    /\ tags = last.pre_tags

(***************************************************************************)
(* C20                                                                     *)
(***************************************************************************)
\* The numbers of realloc calls that succeed, as the allocator decides
Mems == {0, 1, 2}

\* Two calls returned the same boolean, the same token id and end mark when
\* they accepted, and left equal scanner states.
SameOutcome(r1, r2) ==
    /\ r1.ok = r2.ok
    /\ r1.ok => (r1.sym = r2.sym /\ r1.end = r2.end)
    /\ ScannerOf(r1.tags, r1.vbuf, r1.vlen, r1.vcap)
         = ScannerOf(r2.tags, r2.vbuf, r2.vlen, r2.vcap)

\* The dispatch of scan reaches scan_verbatim_start.
ReachesVerbatimStart(valid) ==
    "VERBATIM_START" \in valid /\ "DJANGO_COMMENT_CONTENT" \notin valid

SubScannerOn(w) == scan(Fresh, w, 0, last.valid, 1).sub

\* The next byte at the cursor of the last call (nothing at end of input)
NextByte(inp, i) == IF i < Len(inp) THEN << inp[i + 1] >> ELSE << >>

\* What the dispatcher looks at: the next byte, and behind a run of
\* whitespace the first byte that is none, and the byte behind a `<`
DispatchWindow(inp, i) ==
    LET j == SkipWhile(inp, i, {" ", "\t", "\n", "\r", "\f"}) IN
    (IF j > i THEN NextByte(inp, i) ELSE << >>)
        \o NextByte(inp, j)
        \o (IF LA(inp, j) = "<" THEN NextByte(inp, j + 1) ELSE << >>)

\* C21 as stated: the sub-scanner a scan call runs is a function of the
\* validity vector and the next input byte: a call on a fresh scanner with
\* the same vector, whose input is that byte alone, runs the same one.
C21_DispatchByVectorAndNextByte ==
    last.op = "scan" => last.sub = SubScannerOn(NextByte(doc, last.start))

\* C21, amended: the sub-scanner a scan call runs is a function of the
\* validity vector, the next byte and, where the HTML branch is reached,
\* the first byte behind the whitespace and the byte behind a `<` (`<!`
\* selects the comment scanner); it does not depend on the scanner state
\* or on any later input.
C21_DispatchByVectorAndWindow ==
    last.op = "scan" => last.sub = SubScannerOn(DispatchWindow(doc, last.start))

\* C21's case: a scan on a non-empty stack, with input behind the window,
\* ran the implicit-end-tag scanner.
C21_Witness ==
    /\ last.op = "scan" /\ last.sub = "implicit_end_tag"
    /\ last.pre_tags # << >>
    /\ Len(doc) > last.start + Len(DispatchWindow(doc, last.start))

(***************************************************************************)
(* C22                                                                     *)
(***************************************************************************)
\* A scan call returned false.
ScanRefused == last.op = "scan" /\ ~last.ok

\* The cursor behind the whitespace the HTML branch skips
BehindWhitespace(inp, i) == SkipWhile(inp, i, {" ", "\t", "\n", "\r", "\f"})

\* C22 as stated: whenever scan returns false the lexer cursor is at the
\* position it had when scan was called.
C22_RefusedScanLeavesCursor ==
    ScanRefused => last.cur = last.start

\* C22, amended: whenever scan returns false no token is produced and the
\* host stays at the position of the call, but the lexer cursor may have
\* moved: it is never in front of that position, it is one byte behind the
\* `:` when the filter-colon check fails, and one byte behind the `/` when
\* the self-closing scanner finds no `>`.
C22_RefusedScanLeavesHostPosition ==
    ScanRefused =>
        /\ pos = last.start
        /\ last.cur >= last.start
        /\ last.sub = "filter_colon" => last.cur = last.start + 1
        /\ last.sub = "self_closing_tag_delimiter" =>
              last.cur = BehindWhitespace(doc, last.start) + 1

\* C22's case: the filter-colon check failed on a `:` with no argument
\* behind it.
C22_Witness ==
    /\ ScanRefused /\ last.sub = "filter_colon"
    /\ LA(doc, last.start) = ":"

(***************************************************************************)
(* C23                                                                     *)
(***************************************************************************)
\* The raw-text or the RCDATA-text scanner ran.
TextScanRan == last.op = "scan" /\ last.sub \in {"raw_text", "rcdata_text"}

\* The scan started at the sentinel of the top tag, at a Django opener or
\* at the end of input.
TextScanStartsAtStop ==
    \/ last.start = Len(doc)
    \/ DjangoOpenerAt(doc, last.start)
    \/ /\ last.pre_tags # << >>
       /\ Top(last.pre_tags).type \in {"SCRIPT", "STYLE", "TITLE", "TEXTAREA"}
       /\ IsAtFolded(doc, last.start, SentinelOf(Top(last.pre_tags).type))

\* C23: RAW_TEXT and RCDATA_TEXT are emitted only for a token that holds at
\* least one byte; a scan that starts at the end-tag sentinel, at a Django
\* opener or at the end of input returns false, so `<script></script>`
\* yields no RAW_TEXT.
C23_NoEmptyText ==
    TextScanRan =>
        /\ last.ok => (last.sym \in {"RAW_TEXT", "RCDATA_TEXT"}
                        /\ last.end > last.start)
        /\ TextScanStartsAtStop => ~last.ok

\* C23's case: in `script></script` the raw-text scanner ran right behind
\* the `>` of the start tag, on the end-tag sentinel.
C23_Witness ==
    /\ TextScanRan /\ last.sub = "raw_text" /\ ~last.ok
    /\ last.pre_tags # << >> /\ Top(last.pre_tags).type = "SCRIPT"
    /\ last.start = 7
    /\ IsAtFolded(doc, last.start, SentinelOf("SCRIPT"))

(***************************************************************************)
(* C24                                                                     *)
(***************************************************************************)
\* The validator accepted a token.
ValidatorAccepted ==
    /\ last.op = "scan" /\ last.sub = "validate_generic_tag" /\ last.ok

\* C24: every accepted VALIDATE_GENERIC_BLOCK or VALIDATE_GENERIC_SIMPLE
\* token is zero-width: its end mark is the cursor position at which scan
\* was called, however far the identifier read and the end-tag lookahead
\* advanced; the host stays at that position.
C24_ValidatorTokenIsZeroWidth ==
    ValidatorAccepted =>
        /\ last.sym \in {"VALIDATE_GENERIC_BLOCK", "VALIDATE_GENERIC_SIMPLE"}
        /\ last.end = last.start
        /\ pos = last.start

\* C24's case: a block accepted after the lookahead advanced past the
\* identifier to the end tag.
C24_Witness ==
    /\ ValidatorAccepted /\ last.sym = "VALIDATE_GENERIC_BLOCK"
    /\ last.cur > last.start + Len(IdentifierAt(doc, last.start))
    /\ last.end = last.start

(***************************************************************************)
(* C25                                                                     *)
(***************************************************************************)
HoldsPlaintext(stack) == \E k \in 1..Len(stack) : stack[k].type = "PLAINTEXT"

\* The stack holds at most one PLAINTEXT tag, and that one on top.
PlaintextOnlyOnTop(stack) ==
    \A k \in 1..Len(stack) : stack[k].type = "PLAINTEXT" => k = Len(stack)

\* C25 as stated: in every state reachable from a fresh scanner by scan
\* calls the element stack holds at most one PLAINTEXT tag and, if it holds
\* one, that tag is the top of the stack.
C25_PlaintextOnlyOnTop == PlaintextOnlyOnTop(tags)

\* C25, amended: a scan call keeps "at most one PLAINTEXT tag, on top"
\* unless it scans a start-tag name while the stack holds a PLAINTEXT tag,
\* which pushes the new tag above it; a `plaintext` start tag leaves
\* PLAINTEXT on top and PLAINTEXT_TEXT is emitted only on a PLAINTEXT top,
\* which it pops.
C25_PlaintextOnTopUnlessPushedOver ==
    last.op = "scan" =>
        LET pre == last.pre_tags IN
        /\ ( /\ PlaintextOnlyOnTop(pre)
             /\ ~(last.ok /\ last.sym \in GrowingSymbols /\ HoldsPlaintext(pre)) ) =>
               PlaintextOnlyOnTop(tags)
        /\ (last.ok /\ last.sym = "PLAINTEXT_START_TAG_NAME") =>
               (tags # << >> /\ Top(tags).type = "PLAINTEXT")
        /\ (last.ok /\ last.sym = "PLAINTEXT_TEXT") =>
               /\ pre # << >> /\ Top(pre).type = "PLAINTEXT"
               /\ tags = Popped(pre)

\* C25's case: PLAINTEXT_TEXT took the PLAINTEXT tag off a stack that held
\* another tag below it.
C25_Witness ==
    /\ ScanSucceeded /\ last.sym = "PLAINTEXT_TEXT"
    /\ Len(last.pre_tags) >= 2
    /\ PlaintextOnlyOnTop(last.pre_tags)

(***************************************************************************)
(* C26                                                                     *)
(***************************************************************************)
ForeignBelow(stack, k) == \E j \in 1..(k - 1) : stack[j].type \in {"SVG", "MATH"}

KnownTagName(name) == \E e \in TAG_TYPES_BY_TAG_NAME : e[1] = name

\* C26 as stated: in every state reachable from a fresh scanner by scan
\* calls, every CUSTOM tag on the stack has an SVG or MATH tag below it.
C26_CustomOnlyAboveForeign ==
    \A k \in 1..Len(tags) : tags[k].type = "CUSTOM" => ForeignBelow(tags, k)

\* C26, amended: a CUSTOM tag with no SVG or MATH tag below it was opened
\* outside foreign content under a name the tag table does not know, and
\* holds that name upper-cased; every tag above an SVG or MATH tag is
\* CUSTOM.
C26_CustomIsForeignOrUnknown ==
    \A k \in 1..Len(tags) :
        /\ (tags[k].type = "CUSTOM" /\ ~ForeignBelow(tags, k)) =>
               /\ tags[k].name = Upper(tags[k].name)
               /\ ~KnownTagName(tags[k].name)
               /\ Len(tags[k].name) > 0
        /\ ForeignBelow(tags, k) => tags[k].type = "CUSTOM"

\* C26's case: an unknown name opened outside foreign content lies below an
\* SVG tag that holds a CUSTOM tag of its own.
C26_Witness ==
    /\ ScanSucceeded /\ last.sym = "FOREIGN_START_TAG_NAME"
    /\ Len(tags) = 3
    /\ tags[1].type = "CUSTOM" /\ tags[2].type = "SVG" /\ tags[3].type = "CUSTOM"
    /\ tags[3].name # Upper(tags[3].name)

(***************************************************************************)
(* C27                                                                     *)
(***************************************************************************)
\* The scanners of the HTML branch, and "none" where the branch calls none
HtmlBranchScanners ==
    { "comment", "implicit_end_tag", "self_closing_tag_delimiter",
      "end_tag_name", "start_tag_name", "none" }

TagNameTokenValid(valid) == valid \cap (StartTagSymbols \cup EndTagSymbols) # {}

\* The priority order; rcdata_guarded tells whether a valid tag-name token
\* keeps the RCDATA scanner from running as it keeps the raw-text scanner.
PriorityOrder(valid, c, rcdata_guarded) ==
    CASE "DJANGO_COMMENT_CONTENT" \in valid -> "django_comment_content"
      [] "DJANGO_COMMENT_CONTENT" \notin valid /\ "VERBATIM_START" \in valid ->
             "verbatim_start"
      [] OTHER ->
         CASE "VERBATIM_BLOCK_CONTENT" \in valid -> "verbatim_content"
           [] OTHER ->
              CASE {"VALIDATE_GENERIC_BLOCK", "VALIDATE_GENERIC_SIMPLE"} \cap valid # {} ->
                       "validate_generic_tag"
                [] OTHER ->
                   CASE "FILTER_COLON" \in valid /\ c = ":" -> "filter_colon"
                     [] OTHER ->
                        CASE "RAW_TEXT" \in valid /\ ~TagNameTokenValid(valid) -> "raw_text"
                          [] OTHER ->
                             CASE "RCDATA_TEXT" \in valid
                                    /\ (rcdata_guarded => ~TagNameTokenValid(valid)) ->
                                      "rcdata_text"
                               [] OTHER ->
                                  CASE "PLAINTEXT_TEXT" \in valid -> "plaintext_text"
                                    [] OTHER -> "html"

FollowsPriority(rcdata_guarded) ==
    last.op = "scan" =>
        LET first == PriorityOrder(last.valid, LA(doc, last.start), rcdata_guarded) IN
        /\ first # "html" => last.sub = first
        /\ first = "html" => last.sub \in HtmlBranchScanners

\* C27 as stated: the dispatcher runs the first scanner of the order comment
\* content, verbatim start, verbatim content, validator, filter colon
\* (next byte `:`), raw text (no tag-name token valid), RCDATA text
\* (whenever RCDATA_TEXT is valid), plaintext, and only otherwise the HTML
\* branch; no lower scanner runs, even when the chosen one fails.
C27_PriorityOrder == FollowsPriority(FALSE)

\* C27, amended: the same order, but the RCDATA scanner runs only when
\* RCDATA_TEXT is valid and no tag-name token is valid, as for raw text;
\* with a tag-name token valid the dispatcher goes on to plaintext and the
\* HTML branch.
C27_PriorityOrderRcdataGuarded == FollowsPriority(TRUE)

\* C27's case: with RCDATA_TEXT and the end-tag tokens valid the HTML branch
\* scanned an end-tag name.
C27_Witness ==
    /\ ScanSucceeded
    /\ "RCDATA_TEXT" \in last.valid /\ TagNameTokenValid(last.valid)
    /\ last.sub = "end_tag_name"

(***************************************************************************)
(* C28                                                                     *)
(***************************************************************************)
\* The last call entered the comment state machine.
CommentEntered == last.op = "scan" /\ last.sub = "comment"

\* The cursor behind the `<!` of the last call
BehindBang == BehindWhitespace(doc, last.start) + 2

\* The cursors directly behind a `-->` or a `--!>` that starts at cursor a
\* or later
ClosingEnds(a) ==
    { k + 3 : k \in { n \in a..Len(doc) : IsAt(doc, n, <<"-", "-", ">">>) } }
        \cup { k + 4 : k \in { n \in a..Len(doc) : IsAt(doc, n, <<"-", "-", "!", ">">>) } }

\* The cursor directly behind a `>` or a `->` that stands at cursor a
AbruptEnds(a) ==
    (IF IsAt(doc, a, <<">">>) THEN {a + 1} ELSE {})
        \cup (IF IsAt(doc, a, <<"-", ">">>) THEN {a + 2} ELSE {})

\* The end of the first terminator, the end of input where there is none
FirstEnd(ends) == IF ends = {} THEN Len(doc) ELSE Least(ends)

\* C28 as stated: entered behind `<!`, the comment state machine emits
\* COMMENT ending directly behind the first terminator (`-->`, `--!>`, a `>`
\* directly behind `<!`, or `<!--->`), and ending at the end of input when
\* the input ends before a terminator; it does not fail.
C28_CommentEndsAtFirstTerminator ==
    CommentEntered =>
        /\ last.ok /\ last.sym = "COMMENT"
        /\ last.end = FirstEnd(ClosingEnds(BehindBang)
                                \cup (IF IsAt(doc, BehindBang, <<">">>)
                                      THEN {BehindBang + 1} ELSE {}))

\* C28, amended: entered behind `<!`, the state machine fails unless `--`
\* follows; behind `<!--` it emits COMMENT ending directly behind the first
\* terminator, which is a `>` or a `->` directly behind `<!--`, or a `-->`
\* or `--!>` anywhere behind `<!--`, and ending at the end of input when the
\* input ends before a terminator.
C28_CommentEndsAtFirstTerminatorBehindDashes ==
    CommentEntered =>
        IF IsAt(doc, BehindBang, <<"-", "-">>)
        THEN /\ last.ok /\ last.sym = "COMMENT"
             /\ last.end = FirstEnd(ClosingEnds(BehindBang + 2)
                                     \cup AbruptEnds(BehindBang + 2))
             /\ pos = last.end
        ELSE /\ ~last.ok
             /\ pos = last.start

\* C28's case: a comment with content ended behind its first `-->`, with
\* input left behind it.
C28_Witness ==
    /\ CommentEntered /\ last.ok
    /\ IsAt(doc, last.end - 3, <<"-", "-", ">">>)
    /\ last.end - 3 > BehindBang + 2
    /\ last.end < Len(doc)

(***************************************************************************)
(* C29                                                                     *)
(***************************************************************************)
\* The last call scanned an end-tag name.
EndTagNameScanned ==
    /\ last.op = "scan" /\ last.sub = "end_tag_name" /\ last.ok

\* The name in front of the last call, as written
RawName == NameAt(doc, BehindSpace(doc, last.start))

\* The stack is in foreign content below a CUSTOM top.
UnderCustomTop(stack) ==
    /\ HoldsForeign(stack) /\ Top(stack).type = "CUSTOM"

\* The top of the stack is the SVG or MATH entry itself.
ForeignRootOnTop(stack) ==
    /\ stack # << >> /\ Top(stack).type \in {"SVG", "MATH"}

\* C29: in foreign content the top of the stack is CUSTOM or the SVG/MATH
\* entry itself. Under a CUSTOM top an end-tag name is compared as written:
\* it pops the top exactly when it equals the top's name letter for letter,
\* and is END_TAG_NAME exactly when some CUSTOM entry carries it letter for
\* letter. When the SVG/MATH entry is the top, its name in any letter case
\* pops it, and the stack is in foreign content no more.
C29_EndTagCaseFoldingInForeignContent ==
    /\ HoldsForeign(tags) => Top(tags).type \in {"SVG", "MATH", "CUSTOM"}
    /\ EndTagNameScanned =>
          LET stack == last.pre_tags IN
          /\ UnderCustomTop(stack) =>
                /\ (tags = Popped(stack)) <=> (Top(stack).name = RawName)
                /\ tags # Popped(stack) => tags = stack
                /\ (last.sym = "END_TAG_NAME") <=>
                       \E j \in 1..Len(stack) :
                           stack[j].type = "CUSTOM" /\ stack[j].name = RawName
          /\ (ForeignRootOnTop(stack)
                 /\ Upper(RawName) = Upper(IF Top(stack).type = "SVG"
                                            THEN <<"s", "v", "g">>
                                            ELSE <<"m", "a", "t", "h">>)) =>
                /\ last.sym = "END_TAG_NAME"
                /\ tags = Popped(stack)
                /\ ~HoldsForeign(tags)

\* C29's case: under an `svg` opened inside a `p`, an end-tag name that
\* differs from the CUSTOM top's name by letter case only was refused as
\* erroneous and the stack kept.
C29_Witness ==
    /\ EndTagNameScanned /\ last.sym = "ERRONEOUS_END_TAG_NAME"
    /\ UnderCustomTop(last.pre_tags)
    /\ last.pre_tags[1].type = "P"
    /\ Top(last.pre_tags).name # RawName
    /\ Upper(Top(last.pre_tags).name) = Upper(RawName)
    /\ tags = last.pre_tags

(***************************************************************************)
(* C30                                                                     *)
(***************************************************************************)
\* The last call ran the self-closing delimiter scanner.
SelfClosingRan == last.op = "scan" /\ last.sub = "self_closing_tag_delimiter"

\* C30: the self-closing delimiter scanner succeeds exactly when `/>` stands
\* at the cursor, emitting SELF_CLOSING_TAG_DELIMITER that ends behind the
\* `>`; on success it pops the top when the stack is in foreign content and
\* not empty, and leaves the stack as it was otherwise; on failure the stack
\* is as it was.
C30_SelfClosingDelimiter ==
    SelfClosingRan =>
        LET at    == BehindWhitespace(doc, last.start)
            stack == last.pre_tags
        IN
        /\ last.ok <=> IsAt(doc, at, <<"/", ">">>)
        /\ last.ok =>
              /\ last.sym = "SELF_CLOSING_TAG_DELIMITER"
              /\ last.end = at + 2
              /\ pos = at + 2
              /\ (HoldsForeign(stack) /\ stack # << >>) => tags = Popped(stack)
              /\ ~HoldsForeign(stack) => tags = stack
        /\ ~last.ok => tags = stack /\ pos = last.start

\* C30's case: `/>` behind an opened `svg` took the element off the stack.
C30_Witness ==
    /\ SelfClosingRan /\ last.ok
    /\ HoldsForeign(last.pre_tags)
    /\ Top(last.pre_tags).type = "SVG"
    /\ tags = Popped(last.pre_tags)

\* `/>` behind a `p` opened outside foreign content left the `p` open.
C30_HtmlElementStaysOpen ==
    /\ SelfClosingRan /\ last.ok
    /\ last.pre_tags # << >>
    /\ ~HoldsForeign(last.pre_tags)
    /\ tags = last.pre_tags

(***************************************************************************)
(* C31                                                                     *)
(***************************************************************************)
\* The last call ran the plaintext scanner.
PlaintextRan == last.op = "scan" /\ last.sub = "plaintext_text"

\* C31: with PLAINTEXT on top of the stack the plaintext scanner emits
\* PLAINTEXT_TEXT that ends at the end of input, whatever the input holds,
\* and pops the PLAINTEXT tag; with any other top or an empty stack it
\* returns false and changes nothing.
C31_PlaintextTakesAllInput ==
    PlaintextRan =>
        LET stack == last.pre_tags IN
        IF stack # << >> /\ Top(stack).type = "PLAINTEXT"
        THEN /\ last.ok /\ last.sym = "PLAINTEXT_TEXT"
             /\ last.end = Len(doc)
             /\ pos = Len(doc)
             /\ tags = Popped(stack)
        ELSE /\ ~last.ok
             /\ tags = stack
             /\ pos = last.start

\* C31's case: in the content of `<plaintext>` the scanner read over a `<`,
\* a `</plaintext>` and a Django opener to the end of input.
C31_Witness ==
    /\ PlaintextRan /\ last.ok
    /\ last.start = 10
    /\ \E a, b \in last.start..(Len(doc) - 1) :
           /\ IsAt(doc, a, <<"<", "/", "p", "l", "a", "i", "n", "t", "e", "x", "t", ">">>)
           /\ IsAt(doc, b, <<"{", "%">>)
    /\ last.end = Len(doc)

(***************************************************************************)
(* C32                                                                     *)
(***************************************************************************)
\* The last call had FILTER_COLON valid, no token of a scanner that runs
\* before the filter colon, and a `:` as its next byte.
FilterColonOffered ==
    /\ last.op = "scan"
    /\ "FILTER_COLON" \in last.valid
    /\ last.valid \cap { "DJANGO_COMMENT_CONTENT", "VERBATIM_START",
                         "VERBATIM_BLOCK_CONTENT", "VALIDATE_GENERIC_BLOCK",
                         "VALIDATE_GENERIC_SIMPLE" } = {}
    /\ LA(doc, last.start) = ":"

\* The bytes that may follow a filter colon
FilterArgumentStarts ==
    { "\"", "'", "+", "-", ".", "_" }
        \cup { "0", "1", "2", "3", "4", "5", "6", "7", "8", "9" }
        \cup LowerSet \cup UpperSet

\* C32: with FILTER_COLON valid and `:` as the next byte, scan emits
\* FILTER_COLON ending directly behind the `:` if and only if the byte
\* behind the `:` is a quote, a digit, a sign, a dot, an ASCII letter or an
\* underscore; for any other byte and at the end of input it returns false.
C32_FilterColonNeedsArgument ==
    FilterColonOffered =>
        /\ last.ok <=> LA(doc, last.start + 1) \in FilterArgumentStarts
        /\ last.ok =>
              /\ last.sym = "FILTER_COLON"
              /\ last.end = last.start + 1
              /\ pos = last.start + 1
        /\ ~last.ok => pos = last.start
        /\ tags = last.pre_tags

\* C32's case: behind a filter name, a colon in front of a quote was
\* accepted.
C32_Witness ==
    /\ FilterColonOffered /\ last.ok
    /\ IsAt(doc, 0, <<"a", ":", "\"">>)
    /\ last.start = 1
    /\ last.end = 2

(***************************************************************************)
(* C33                                                                     *)
(***************************************************************************)
\* The last call ran the start-tag-name or the end-tag-name scanner.
TagNameRead ==
    /\ last.op = "scan" /\ last.sub \in {"start_tag_name", "end_tag_name"}

\* The length of the longest run of bytes of the set at cursor k
RunLength(inp, k, set) ==
    Least({ m \in k..Len(inp) : LA(inp, m) \notin set }) - k

\* C33: a start-tag or end-tag name is the longest run of letters, digits,
\* `:`, `_` and `-` at the cursor: the scanner reads exactly that run, and
\* emits a token exactly when the run is not empty.
C33_TagNameIsLongestRun ==
    TagNameRead =>
        LET at  == BehindSpace(doc, last.start)
            run == RunLength(doc, at, LowerSet \cup UpperSet \cup DigitSet
                                          \cup {":", "_", "-"})
        IN
        /\ last.cur = at + run
        /\ last.ok <=> run > 0
        /\ last.ok => last.end = at + run

\* What the scanner reads: the longest run of letters, digits, `:` and `-`;
\* an underscore ends the name.
C33_TagNameEndsAtUnderscore ==
    TagNameRead =>
        LET at  == BehindSpace(doc, last.start)
            run == RunLength(doc, at, LowerSet \cup UpperSet \cup DigitSet
                                          \cup {":", "-"})
        IN
        /\ last.cur = at + run
        /\ last.ok <=> run > 0
        /\ last.ok => last.end = at + run

\* The start tag `a_a` was scanned as the name `a`.
C33_NameCutAtUnderscore ==
    /\ TagNameRead /\ last.ok /\ last.sub = "start_tag_name"
    /\ last.start = 0
    /\ IsAt(doc, 0, <<"a", "_", "a">>)
    /\ last.end = 1

(***************************************************************************)
(* C34                                                                     *)
(***************************************************************************)
\* C34: no pop is ever executed on an empty element stack: the stack is
\* never the one a pop of an empty stack leaves, and a call that found the
\* stack empty leaves it empty or pushes on it.
C34_NoPopOnEmptyStack ==
    /\ tags # BrokenStack
    /\ \A k \in 1..Len(tags) : tags[k].type # "BROKEN"
    /\ (last.op = "scan" /\ last.pre_tags = << >>) =>
          \/ tags = << >>
          \/ /\ last.ok /\ last.sym \in GrowingSymbols /\ Len(tags) = 1

\* C34's case: with a stack saved in the host's buffer, the implicit-end-tag
\* scanner was called on an empty stack at the end of input and popped
\* nothing.
C34_Witness ==
    /\ last.op = "scan" /\ last.sub = "implicit_end_tag"
    /\ last.pre_tags = << >>
    /\ AtEof(doc, BehindWhitespace(doc, last.start))
    /\ buffer # NoBuffer /\ buffer.tags # << >>
    /\ ~last.ok
    /\ tags = << >>

(***************************************************************************)
(* C35                                                                     *)
(***************************************************************************)
\* C35 as stated: whenever scan returns true, the token it emits is one
\* whose flag is set in the validity vector of that call.
C35_EmittedTokenIsValid ==
    ScanSucceeded => last.sym \in last.valid

\* C35, amended: the Django tokens, FILTER_COLON, the text tokens,
\* IMPLICIT_END_TAG and SELF_CLOSING_TAG_DELIMITER are emitted only when
\* their own flag is set. A start-tag name token is emitted when some
\* start-tag flag is set (and no end-tag flag, nor RAW_TEXT), an end-tag name
\* token when some end-tag flag is set (and not RAW_TEXT), whichever token
\* of the family the name calls for; COMMENT is emitted at `<!--` without
\* any flag being consulted.
C35_EmittedTokenFamilyIsValid ==
    ScanSucceeded =>
        CASE last.sym \in StartTagSymbols ->
                 /\ last.valid \cap StartTagSymbols # {}
                 /\ last.valid \cap EndTagSymbols = {}
                 /\ "RAW_TEXT" \notin last.valid
          [] last.sym \in EndTagSymbols ->
                 /\ last.valid \cap EndTagSymbols # {}
                 /\ "RAW_TEXT" \notin last.valid
          [] last.sym = "COMMENT" -> last.sub = "comment"
          [] OTHER -> last.sym \in last.valid

\* C35's case: with only SELF_CLOSING_TAG_DELIMITER valid, scan emitted
\* COMMENT at `<!---->`.
C35_Witness ==
    /\ ScanSucceeded /\ last.sym = "COMMENT"
    /\ last.valid = {"SELF_CLOSING_TAG_DELIMITER"}
    /\ IsAt(doc, last.start, <<"<", "!", "-", "-">>)

(***************************************************************************)
(* C36                                                                     *)
(***************************************************************************)
\* The cursor at which the loop that was started on doc returns, as the
\* scanners compute it
LoopReturnsAt(loop) ==
    CASE loop \in HtmlCommentStates -> comment_loop(doc, 0, "HTML_COMMENT_START")
      [] loop = "VERBATIM_CONTENT" -> scan_verbatim_content(Fresh, doc, 0).cur
      [] loop = "VALIDATE_LOOKAHEAD" -> find_generic_end(doc, 0, END_FOO)[2]

\* Every step so far advanced the cursor or returned, but for at most one
\* step in a row; the cursor is inside the input; a loop that has returned
\* stands where the scanner's result says.
LoopStepsAreBounded ==
    /\ last.length <= 1
    /\ pos <= Len(doc)
    /\ (phase = "RETURNED" /\ last.op = "step") => pos = LoopReturnsAt(last.sub)

\* C36: every loop of a scan call returns on every finite input: each pass
\* advances the cursor or returns, but for the comment state machine's
\* transitions that only change the state, of which no two follow each
\* other; the cursor never passes the end of input, and every loop returns.
C36_EveryLoopReturns ==
    /\ [] LoopStepsAreBounded
    /\ <>(phase = "RETURNED")

\* C36's case: in `<<!-->` behind `<!--` the state machine went from
\* HTML_COMMENT_LT_BANG_DASH_DASH to HTML_COMMENT_END without advancing.
C36_Witness ==
    /\ last.op = "step" /\ last.sub = "HTML_COMMENT_LT_BANG_DASH_DASH"
    /\ phase = "HTML_COMMENT_END"
    /\ pos = last.start
    /\ last.length = 1

(***************************************************************************)
(* C37                                                                     *)
(***************************************************************************)
\* The positions of the SVG and MATH tags on the stack
ForeignRoots(stack) == { k \in 1..Len(stack) : stack[k].type \in {"SVG", "MATH"} }

\* The folding test of the end-tag scanner: fold unless in foreign content
\* under a top that is neither SVG nor MATH
EndTagFolds(stack) ==
    \/ ~HoldsForeign(stack)
    \/ (stack # << >> /\ Top(stack).type \in {"SVG", "MATH"})

\* The folding test of the implicit-end-tag scanner: fold unless in foreign
\* content under a CUSTOM top
ImplicitEndFolds(stack) ==
    \/ ~HoldsForeign(stack)
    \/ (stack # << >> /\ Top(stack).type # "CUSTOM")

\* C37: the stack holds at most one SVG or MATH tag and every tag above it
\* is CUSTOM, so that in foreign content the top is SVG, MATH or CUSTOM and
\* the folding tests of the end-tag scanner and of the implicit-end-tag
\* scanner agree.
C37_OneForeignRoot ==
    /\ Cardinality(ForeignRoots(tags)) <= 1
    /\ \A r \in ForeignRoots(tags) :
          \A k \in (r + 1)..Len(tags) : tags[k].type = "CUSTOM"
    /\ EndTagFolds(tags) <=> ImplicitEndFolds(tags)

\* C37's case: an `svg` opened inside an `svg` that was opened inside a `p`
\* lies on the stack as a CUSTOM tag.
C37_Witness ==
    /\ ScanSucceeded /\ last.sym = "FOREIGN_START_TAG_NAME"
    /\ Len(tags) = 3
    /\ tags[1].type = "P" /\ tags[2].type = "SVG"
    /\ tags[3] = Tag("CUSTOM", <<"s", "v", "g">>)
    /\ ~EndTagFolds(tags)

(***************************************************************************)
(* C38                                                                     *)
(***************************************************************************)
\* The last call ran the implicit-end-tag scanner at `</`.
ImplicitEndAtClosingTag ==
    /\ last.op = "scan" /\ last.sub = "implicit_end_tag"
    /\ IsAt(doc, BehindWhitespace(doc, last.start), <<"<", "/">>)

\* The name behind the `</` of the last call, as written
ClosingName == NameAt(doc, BehindWhitespace(doc, last.start) + 2)

\* The entry is the element the name stands for: a CUSTOM entry by its
\* name (letter for letter in foreign content, folded outside), any other
\* entry by the kind the folded name has in the tag table.
Names(entry, raw, stack) ==
    IF entry.type = "CUSTOM"
    THEN \/ entry.name = raw
         \/ (~HoldsForeign(stack) /\ entry.name = Upper(raw))
    ELSE tag_for_name(Upper(raw)).type = entry.type

\* What C38 says of one call on the stack it found
ImplicitEndAtClosingTagOutcome ==
    LET stack == last.pre_tags
        at    == BehindWhitespace(doc, last.start)
        named == { j \in 1..Len(stack) : Names(stack[j], ClosingName, stack) }
    IN
    IF named = {} \/ Len(stack) \in named
    THEN /\ ~last.ok
         /\ tags = stack
         /\ pos = last.start
    ELSE /\ last.ok /\ last.sym = "IMPLICIT_END_TAG"
         /\ last.end = at
         /\ pos = at
         /\ tags = Popped(stack)

C38_ImplicitEndDigsOutsideForeign ==
    (ImplicitEndAtClosingTag /\ ~HoldsForeign(last.pre_tags)) =>
        ImplicitEndAtClosingTagOutcome

\* In `<svg><p></svg>` the implicit-end-tag scanner refused at `</svg`
\* and left the `p` open.
C38_ForeignRootNotFound ==
    /\ ImplicitEndAtClosingTag /\ ~last.ok
    /\ ClosingName = <<"s", "v", "g">>
    /\ Len(last.pre_tags) >= 2
    /\ last.pre_tags[Len(last.pre_tags) - 1].type = "SVG"
    /\ Top(last.pre_tags).type = "CUSTOM"
    /\ tags = last.pre_tags

\* In `<div><p><a>b</div>` two calls popped `a` and `p`.
C38_TwoImplicitEnds ==
    /\ ImplicitEndAtClosingTag /\ last.ok
    /\ Len(trace) >= 2
    /\ trace[Len(trace)] = "IMPLICIT_END_TAG"
    /\ trace[Len(trace) - 1] = "IMPLICIT_END_TAG"
    /\ tags # << >> /\ Top(tags).type = "DIV"

(***************************************************************************)
(* C39                                                                     *)
(***************************************************************************)
HoldsVoid(stack) == \E k \in 1..Len(stack) : stack[k].type \in VoidTypes

\* C39: no tag on the element stack is a void tag, whether scan calls or a
\* deserialize of serialized bytes built the stack, so the implicit-end-tag
\* scanner never finds a void parent.
C39_NoVoidTagOnStack ==
    /\ ~HoldsVoid(tags)
    /\ buffer # NoBuffer => ~HoldsVoid(buffer.tags)
    /\ (last.op = "scan" /\ last.sub = "implicit_end_tag") =>
          ~(last.pre_tags # << >> /\ Top(last.pre_tags).type \in VoidTypes)

\* C39's case: on a stack that had been serialized, the start tag `br` was
\* scanned as a void tag and nothing was pushed.
C39_Witness ==
    /\ ScanSucceeded /\ last.sym = "VOID_START_TAG_NAME"
    /\ buffer # NoBuffer /\ buffer.tags # << >>
    /\ tags = last.pre_tags
    /\ tags # << >>

(***************************************************************************)
(* The base HTML scanner (tree_sitter_html_external_scanner). Its Scanner  *)
(* holds the tag stack only. in_foreign_content, scan_tag_name,            *)
(* scan_comment, scan_plaintext_text, pop_tag, scan_implicit_end_tag,      *)
(* scan_start_tag_name and scan_self_closing_tag_delimiter have the same   *)
(* text in both scanners, so the operators above stand for both; the text  *)
(* scanners, scan_end_tag_name and the dispatcher are translated here.     *)
(***************************************************************************)
\* The loop of the base scanner's scan_raw_text and scan_rcdata_text:
\* <<cursor, end mark>>
RECURSIVE html_text_loop(_, _, _, _, _)
html_text_loop(inp, i, end_delimiter, delimiter_index, mk) ==
    LET c == LA(inp, i) IN
    IF c = EOFC THEN <<i, mk>>
    ELSE IF towupper(c) = end_delimiter[delimiter_index + 1]
    THEN IF delimiter_index + 1 = Len(end_delimiter)
         THEN <<i, mk>>
         ELSE html_text_loop(inp, i + 1, end_delimiter, delimiter_index + 1, mk)
    ELSE html_text_loop(inp, i + 1, end_delimiter, 0, MarkAt(i + 1))

html_scan_raw_text(S, inp, i) ==
    IF Len(S.tags) = 0 THEN Ret(FALSE, NoSymbol, i, Unmarked, S)
    ELSE IF array_back(S.tags).type \notin {"SCRIPT", "STYLE"}
    THEN Ret(FALSE, NoSymbol, i, Unmarked, S)
    ELSE LET end_delimiter == IF array_back(S.tags).type = "SCRIPT"
                              THEN END_SCRIPT ELSE END_STYLE
             r == html_text_loop(inp, i, end_delimiter, 0, MarkAt(i))
         IN  Ret(TRUE, "RAW_TEXT", r[1], r[2], S)

html_scan_rcdata_text(S, inp, i) ==
    IF Len(S.tags) = 0 THEN Ret(FALSE, NoSymbol, i, Unmarked, S)
    ELSE IF array_back(S.tags).type \notin {"TITLE", "TEXTAREA"}
    THEN Ret(FALSE, NoSymbol, i, Unmarked, S)
    ELSE LET end_delimiter == IF array_back(S.tags).type = "TITLE"
                              THEN END_TITLE ELSE END_TEXTAREA
             r == html_text_loop(inp, i, end_delimiter, 0, MarkAt(i))
         IN  Ret(TRUE, "RCDATA_TEXT", r[1], r[2], S)

html_scan_end_tag_name(S, inp, i, mk) ==
    LET foreign_context == in_foreign_content(S.tags)
        has_top   == Len(S.tags) > 0
        uppercase == \/ ~foreign_context
                     \/ (has_top /\ array_back(S.tags).type \in {"SVG", "MATH"})
        rd        == scan_tag_name(inp, i, uppercase)
        tag_name  == rd[1]
        j         == rd[2]
        tag       == IF foreign_context /\ ~uppercase
                     THEN Tag("CUSTOM", tag_name)
                     ELSE tag_for_name(tag_name)
    IN
    IF Len(tag_name) = 0 THEN Ret(FALSE, NoSymbol, j, mk, S)
    ELSE IF has_top /\ tag_eq(array_back(S.tags), tag)
    THEN Ret(TRUE, "END_TAG_NAME", j, mk, pop_tag(S))
    ELSE Ret(TRUE, "ERRONEOUS_END_TAG_NAME", j, mk, S)

\* scan(scanner, lexer, valid_symbols) of the base scanner
html_scan(S, inp, i0, valid) ==
    LET valid_start_tag == valid \cap StartTagSymbols # {}
        valid_end_tag   == valid \cap EndTagSymbols # {}
        i == SkipWhile(inp, i0, {" ", "\t", "\n", "\r", "\f"})
        c == LA(inp, i)
        nothing == Ret(FALSE, NoSymbol, i, Unmarked, S)
    IN
    IF "RAW_TEXT" \in valid /\ ~valid_end_tag /\ ~valid_start_tag
    THEN Ran("raw_text", html_scan_raw_text(S, inp, i0))
    ELSE IF "RCDATA_TEXT" \in valid /\ ~valid_end_tag /\ ~valid_start_tag
    THEN Ran("rcdata_text", html_scan_rcdata_text(S, inp, i0))
    ELSE IF "PLAINTEXT_TEXT" \in valid
    THEN Ran("plaintext_text", scan_plaintext_text(S, inp, i0))
    ELSE IF c = "<"
    THEN IF LA(inp, i + 1) = "!"
         THEN Ran("comment", scan_comment(S, inp, i + 2, MarkAt(i)))
         ELSE IF "IMPLICIT_END_TAG" \in valid
         THEN Ran("implicit_end_tag", scan_implicit_end_tag(S, inp, i + 1, MarkAt(i)))
         ELSE Ret(FALSE, NoSymbol, i + 1, MarkAt(i), S)
    ELSE IF c = EOFC
    THEN IF "IMPLICIT_END_TAG" \in valid
         THEN Ran("implicit_end_tag", scan_implicit_end_tag(S, inp, i, Unmarked))
         ELSE nothing
    ELSE IF c = "/"
    THEN IF "SELF_CLOSING_TAG_DELIMITER" \in valid
         THEN Ran("self_closing_tag_delimiter",
                  scan_self_closing_tag_delimiter(S, inp, i, Unmarked))
         ELSE nothing
    ELSE IF (valid_start_tag \/ valid_end_tag) /\ "RAW_TEXT" \notin valid
    THEN IF valid_end_tag
         THEN Ran("end_tag_name", html_scan_end_tag_name(S, inp, i, Unmarked))
         ELSE Ran("start_tag_name", scan_start_tag_name(S, inp, i, Unmarked))
    ELSE nothing

(***************************************************************************)
(* SpecPair: the two scanners side by side. Every call goes to both, at    *)
(* the same position with the same valid symbols, none of them a Django    *)
(* symbol. The record of the last call carries the base scanner's side:    *)
(* its stack (base_tags) and what it returned.                             *)
(***************************************************************************)
MaxPairFrags == 3

\* "<p ", "</p ", "<script ", "</script ", "<title ", "<svg ", "{{" and "{"
PairFrags ==
    { <<"<", "p", " ">>,
      <<"<", "/", "p", " ">>,
      <<"<", "s", "c", "r", "i", "p", "t", " ">>,
      <<"<", "/", "s", "c", "r", "i", "p", "t", " ">>,
      <<"<", "t", "i", "t", "l", "e", " ">>,
      <<"<", "s", "v", "g", " ">>,
      <<"{", "{">>,
      <<"{">> }

PairDocs == DocsOf(PairFrags, MaxPairFrags)

DjangoSymbols ==
    { "DJANGO_COMMENT_CONTENT", "VERBATIM_START", "VERBATIM_BLOCK_CONTENT",
      "VALIDATE_GENERIC_BLOCK", "VALIDATE_GENERIC_SIMPLE", "FILTER_COLON" }

\* The validity vectors of SpecAny in which no Django symbol is valid
HtmlVectors ==
    { valid \in ValidityVectors : valid \cap DjangoSymbols = {} }

BaseOf(stack) == ScannerOf(stack, << >>, 0, 0)

PairCallOf(valid, r, b) ==
    [ base_tags |-> b.tags, base_ok |-> b.ok, base_sym |-> b.sym,
      base_end |-> b.end, base_sub |-> b.sub, base_pre_tags |-> last.base_tags ]
    @@ CallOf(valid, 1, r)

NoPairCall(stack) ==
    [ base_tags |-> stack, base_ok |-> FALSE, base_sym |-> NoSymbol,
      base_end |-> 0, base_sub |-> "none", base_pre_tags |-> stack ]
    @@ NoCall

\* Both external_scanner_scan entry points, called at pos
ScanPair ==
    \E valid \in HtmlVectors :
        LET r == scan(Current, doc, pos, valid, 1)
            b == html_scan(BaseOf(last.base_tags), doc, pos, valid)
        IN
        /\ Install(r)
        /\ pos' = IF r.ok THEN r.end ELSE pos
        /\ last' = PairCallOf(valid, r, b)
        /\ UNCHANGED << buffer, doc, phase, trace >>

\* The grammar's own lexer consumes one character that is no tag name.
LexPair ==
    /\ LA(doc, pos) \in {"<", "/", " ", "{"}
    /\ pos' = pos + 1
    /\ last' = NoPairCall(last.base_tags)
    /\ UNCHANGED << scannerVars, buffer, doc, phase, trace >>

InitPair ==
    /\ doc \in PairDocs
    /\ pos = 0
    /\ tags = Fresh.tags
    /\ verbatim_suffix = Fresh.vbuf
    /\ verbatim_length = Fresh.vlen
    /\ verbatim_capacity = Fresh.vcap
    /\ buffer = NoBuffer
    /\ phase = "free"
    /\ trace = << >>
    /\ last = NoPairCall(<< >>)

NextPair == ScanPair \/ LexPair

SpecPair == InitPair /\ [][NextPair]_vars

(***************************************************************************)
(* C40                                                                     *)
(***************************************************************************)
PairScanned == last.op = "scan"

SameResult ==
    /\ last.ok = last.base_ok
    /\ last.ok => (last.sym = last.base_sym /\ last.end = last.base_end)

TextScannerRan == last.sub \in {"raw_text", "rcdata_text"}

\* END_TAG_NAME where the base scanner says ERRONEOUS_END_TAG_NAME, for a
\* name that matches an entry below the top
EndTagOfDeeperEntry ==
    /\ last.sub = "end_tag_name"
    /\ last.ok /\ last.base_ok
    /\ last.sym = "END_TAG_NAME" /\ last.base_sym = "ERRONEOUS_END_TAG_NAME"
    /\ last.end = last.base_end
    /\ tags = last.pre_tags
    /\ LET raw == NameAt(doc, BehindWhitespace(doc, last.start)) IN
       /\ \E k \in 1..(Len(tags) - 1) : Names(tags[k], raw, tags)
       /\ ~Names(tags[Len(tags)], raw, tags)

\* The base scanner emits an empty text, the htmldjango scanner none
EmptyTextRefused ==
    /\ TextScannerRan
    /\ ~last.ok /\ last.base_ok
    /\ last.base_end = last.start

\* The htmldjango scanner's text ends in front of a Django opener (an
\* empty text in front of the opener is refused), the base scanner's runs on
TextStoppedAtOpener ==
    /\ TextScannerRan
    /\ last.base_ok
    /\ last.ok => (last.sym = last.base_sym /\ last.end < last.base_end)
    /\ IF last.ok THEN DjangoOpenerAt(doc, last.end)
                  ELSE DjangoOpenerAt(doc, last.start)

\* A lone `{` in the text: the htmldjango scanner takes the character
\* behind it unseen, and so may run past the end delimiter
TextHoldsLoneBrace ==
    /\ TextScannerRan
    /\ last.ok /\ last.base_ok
    /\ \E k \in last.start..(last.end - 1) :
           LA(doc, k) = "{" /\ ~DjangoOpenerAt(doc, k)

EqualStacks == tags = last.base_tags

\* C40: called side by side with no Django symbol valid, the htmldjango
\* scanner and the base HTML scanner keep equal element stacks after every
\* call, and their results differ only by END_TAG_NAME for a name matching
\* an entry below the top, by the refusal of an empty raw or RCDATA text,
\* or by a raw or RCDATA text that stops at a Django opener.
C40_RefinesBaseScanner ==
    /\ EqualStacks
    /\ PairScanned =>
         \/ SameResult
         \/ EndTagOfDeeperEntry
         \/ EmptyTextRefused
         \/ TextStoppedAtOpener

\* The stacks alone: equal after every call
C40_EqualStacks == EqualStacks

\* The results differ as C40 says in every text without a lone `{`
C40_RefinesBaseScannerButLoneBrace ==
    /\ EqualStacks
    /\ PairScanned =>
         \/ SameResult
         \/ EndTagOfDeeperEntry
         \/ EmptyTextRefused
         \/ TextStoppedAtOpener
         \/ TextHoldsLoneBrace

\* A raw text with a lone `{` in front of the end delimiter: the htmldjango
\* scanner's token runs past the delimiter the base scanner stops at
C40_LoneBraceRunsPastDelimiter ==
    /\ PairScanned /\ last.sub = "raw_text"
    /\ last.ok /\ last.base_ok
    /\ last.end > last.base_end
    /\ IsAtFolded(doc, last.base_end, END_SCRIPT)

\* The three differences C40 lists each happen
C40_DeeperEndTagSeen == PairScanned /\ ~SameResult /\ EndTagOfDeeperEntry

C40_EmptyTextSeen == PairScanned /\ ~SameResult /\ EmptyTextRefused

C40_OpenerStopSeen ==
    PairScanned /\ ~SameResult /\ last.ok /\ TextStoppedAtOpener
====
